---- MODULE Spec2Model ----
(***************************************************************************)
(* Model of the sops-operator reconciler                                   *)
(* (internal/controller/sopssecret_controller.go).                         *)
(*                                                                         *)
(* One SopsSecret key (namespace "default", name "app") is followed        *)
(* through its lives; the work queue hands a key to at most one worker at  *)
(* a time, so a single pass is in flight.  A pass is split at its API      *)
(* calls and at the decrypt subprocess: between two calls the user and     *)
(* other clients of the API server may act.                                *)
(*                                                                         *)
(* The API server's optimistic concurrency is modelled by the flags stale  *)
(* and secStale: "the resourceVersion of the copy the pass holds is no     *)
(* longer the stored one".  SHA-256 is modelled as a collision-free digest *)
(* of the serialized payload.  The sops binary is a fixed table from       *)
(* encrypted payloads to plaintext maps (SopsPlain), with transient        *)
(* failures drawn from the failure budget.                                 *)
(***************************************************************************)
EXTENDS Integers, Sequences, FiniteSets, TLC

\* ---------------------------------------------------------------- bounds
MaxGen == 2
MaxLives == 1
MaxErrs == 1
MaxOob == 2
MaxTimeout == 2
MaxKeyLen == 3

\* ------------------------------------------------------------- constants
RequeueAfterSeconds == 300
finalizerName == "secrets.gg.io/finalizer"
ReasonDecrypted == "Decrypted"
ReasonDecryptFailed == "DecryptFailed"
ReasonSecretCreated == "SecretCreated"
ReasonSecretUpdated == "SecretUpdated"
ReasonSecretDeleted == "SecretDeleted"
ReasonValidationFail == "ValidationFailed"
ConditionTypeReady == "Ready"
ConditionTypeDecrypted == "Decrypted"

\* ------------------------------------------------------------ data model
Namespace == "default"
CRName == "app"
CustomName == "custom"
SecretNames == {CRName, CustomName}
SpecSecretNames == {"", CustomName}

UidOf(n) == <<"uid-1", "uid-2", "uid-3">>[n]
NoOwner == "none"
OtherOwner == "other"

\* The encrypted payload: spec.data (named ciphertexts) and the root-level
\* sops metadata block ("nil": no block, "nomac": block with empty mac).
Payloads ==
  { [data |-> "enc-1", sops |-> "ok"],
    [data |-> "enc-2", sops |-> "ok"],
    [data |-> "enc-bad", sops |-> "ok"],
    [data |-> "enc-1", sops |-> "nil"],
    [data |-> "enc-1", sops |-> "nomac"] }

\* What `sops -d` yields for a payload: the plaintext spec.data, or a failure.
SopsPlain(p) ==
  IF p.sops # "ok" \/ p.data = "enc-bad" THEN [ok |-> FALSE, data |-> {}]
  ELSE IF p.data = "enc-1"
       THEN [ok |-> TRUE, data |-> {<<"username", "admin">>, <<"password", "p@ss">>}]
       ELSE [ok |-> TRUE, data |-> {<<"username", "admin">>}]

\* Secret data written by somebody else.
TamperedData == {<<"username", "tampered">>}

\* Labels, annotations and type of a Secret written by somebody else.
ForeignLabels == {<<"app.kubernetes.io/managed-by", "helm">>, <<"release", "r1">>}
ForeignAnnotations == {<<"meta.helm.sh/release-name", <<"r1">>>>}
ForeignType == "kubernetes.io/basic-auth"

\* spec.secretLabels, spec.secretAnnotations and spec.secretType of the
\* SopsSecrets the user applies. The value of an annotation is the sequence
\* of the pieces it is put together from.
UserLabels == {<<"team", "a">>}
UserAnnotations == {<<"note", <<"n">>>>}
UserType == ""

SecretTypeOpaque == "Opaque"

\* A Go map as a set of <<key, value>> pairs: its keys, and the assignments
\* m[k] = v for every entry of over, in the order of a range loop (the keys
\* of over are distinct, so the order does not matter).
Keys(m) == {e[1] : e \in m}
Assign(m, over) == {e \in m : e[1] \notin Keys(over)} \cup over

\* Mutant: the whole object, status included, is serialized for the hash.
PayloadYAML_WithStatus(o) ==
  <<"spec.data", o.payload.data, "sops", o.payload.sops, "status", o.status.og>>

\* yaml.Marshal(decryptPayload{Spec.Data, Sops}): the serialized byte stream.
PayloadYAML(o) == <<"spec.data", o.payload.data, "sops", o.payload.sops>>

EmptyHash == <<>>
calculateHash(data) == <<"sha256">> \o data

NoSecret == [present |-> FALSE, name |-> "", namespace |-> "", data |-> {},
             owner |-> "none", creator |-> "none", labels |-> {},
             annotations |-> {}, type |-> ""]
\* status.lastDecryptedTime is "nil" or a time stamp; the stamps are not told
\* apart (time: "now").
EmptyStatus == [secretName |-> "", hash |-> EmptyHash, og |-> 0, time |-> "nil",
                conditions |-> <<>>]
NoCR == [exists |-> FALSE, uid |-> "", generation |-> 0, deleting |-> FALSE,
         finalizer |-> FALSE, suspend |-> FALSE,
         payload |-> [data |-> "", sops |-> "nil"], secretName |-> "",
         secretLabels |-> {}, secretAnnotations |-> {}, secretType |-> "",
         status |-> EmptyStatus]

EmptyResult == [requeue |-> FALSE, requeueAfter |-> 0, err |-> "nil"]
ErrResult(e) == [requeue |-> FALSE, requeueAfter |-> 0, err |-> e]

VARIABLES
  cr,        \* the stored SopsSecret (exists = FALSE: absent / tombstone)
  secrets,   \* the stored Secrets of the namespace, by name
  queued,    \* the key is in the work queue
  timer,     \* a RequeueAfter is pending for the key
  pc,        \* position of the pass in flight
  obj,       \* the pass's copy of the SopsSecret (sopsSecret)
  secret,    \* the pass's derived Secret (secret)
  stale,     \* the stored SopsSecret was written since the pass read it
  secStale,  \* the stored Secret was written since the pass read it
  result,    \* what the pass returns: (ctrl.Result, error)
  log,       \* API calls, decrypt calls and events of the pass, in order
  errs,      \* failures of the API and of the subprocess still to come
  oobs,      \* out-of-band Secret operations still to come
  lives,     \* SopsSecrets created under this name so far
  oob,       \* Secret names touched out-of-band since the operator wrote them
  hist,      \* history: passes run since the last change by the environment
  call       \* a call of a function of the operator looked at on its own:
             \* function, input, progress and output

vars == <<cr, secrets, queued, timer, pc, obj, secret, stale, secStale,
          result, log, errs, oobs, lives, oob, hist, call>>

\* ------------------------------------------------------ helper functions
\* Mutant: spec.secretName is not looked at.
getSecretName_IgnoreSpec(o) == CRName

\* getSecretName, lines 324-329.
getSecretName(o) == IF o.secretName # "" THEN o.secretName ELSE CRName

IsControlledBy(s, o) == s.present /\ s.owner = o.uid

FindCondition(conds, t) == {i \in 1..Len(conds) : conds[i].type = t}

\* Mutant: the condition is appended whether its type is present or not.
SetStatusCondition_Append(conds, c) == Append(conds, c)

\* meta.SetStatusCondition: replace the entry of that type, else append.
SetStatusCondition(conds, c) ==
  IF FindCondition(conds, c.type) # {}
  THEN [i \in 1..Len(conds) |-> IF conds[i].type = c.type THEN c ELSE conds[i]]
  ELSE Append(conds, c)

\* Mutant: setting a condition records the generation as observed.
setCondition_Observes(o, condType, st, reason) ==
  [o EXCEPT !.status.og = o.generation,
            !.status.conditions =
     SetStatusCondition(@, [type |-> condType, status |-> st,
                            reason |-> reason, og |-> o.generation])]

\* setCondition, lines 331-340.
setCondition(o, condType, st, reason) ==
  [o EXCEPT !.status.conditions =
     SetStatusCondition(@, [type |-> condType, status |-> st,
                            reason |-> reason, og |-> o.generation])]

CondStatus(o, t) ==
  IF FindCondition(o.status.conditions, t) = {} THEN "absent"
  ELSE o.status.conditions[CHOOSE i \in FindCondition(o.status.conditions, t) : TRUE].status

CondReason(o, t) ==
  IF FindCondition(o.status.conditions, t) = {} THEN ""
  ELSE o.status.conditions[CHOOSE i \in FindCondition(o.status.conditions, t) : TRUE].reason

\* buildSecret followed by controllerutil.SetControllerReference.
buildSecret(o, decrypted) ==
  [present |-> TRUE, name |-> getSecretName(o), namespace |-> Namespace,
   data |-> decrypted,
   owner |-> o.uid, creator |-> o.uid,
   labels |-> Assign({<<"app.kubernetes.io/managed-by", "sops-operator">>,
                      <<"secrets.gg.io/sopssecret", CRName>>}, o.secretLabels),
   annotations |-> Assign({<<"secrets.gg.io/source", <<Namespace, "/", CRName>>>>},
                          o.secretAnnotations),
   type |-> IF o.secretType = "" THEN SecretTypeOpaque ELSE o.secretType]

Call(op, res) == [op |-> op, res |-> res]
Event(reason) == [op |-> "Event", res |-> reason]

FailChoices == IF errs > 0 THEN {FALSE, TRUE} ELSE {FALSE}
Spend(fail) == errs' = IF fail THEN errs - 1 ELSE errs

\* Mutant: the Secrets are not watched (no Owns in SetupWithManager).
OwnedByKey_NotWatched(s) == FALSE

\* SetupWithManager, Owns: an event of a Secret with a controller owner
\* reference to a SopsSecret enqueues that owner.
OwnedByKey(s) == s.present /\ s.owner \notin {NoOwner, OtherOwner}

InFlight == pc \notin {"idle", "done"}

\* The pass returns (res, err) after the calls and events in entries.
Done(res, entries) ==
  /\ pc' = "done"
  /\ result' = res
  /\ log' = log \o entries

Range(q) == {q[i] : i \in 1..Len(q)}

\* History of the passes: "x" after a change by the user or another client,
\* "p" while a pass runs that began after the last such change, "c_ok" and
\* "c_other" once it has returned ("c_ok": without error, past the finalizer
\* branch and without a decrypt failure), "cp_ok" and "cp_other" while the
\* next pass runs, still with no change in between.
HistAtStart ==
  IF hist = "c_ok" THEN "cp_ok"
  ELSE IF hist = "c_other" THEN "cp_other"
  ELSE "p"

HistAtReturn ==
  IF hist = "x" THEN "x"
  ELSE IF /\ result.err = "nil"
          /\ ~result.requeue
          /\ Event(ReasonDecryptFailed) \notin Range(log)
       THEN "c_ok"
       ELSE "c_other"

\* ------------------------------------------------------------------ Init
\* No call is looked at on its own.
NoCall == [fn |-> "", step |-> "", in |-> <<>>, out |-> <<>>]

\* The scheme the reconciler is built with knows the SopsSecret and Secret
\* types (the field Scheme of SopsSecretReconciler; a reconciler looked at on
\* its own may be given a scheme that does not).
SchemeHasTypes == ~(call.fn = "Reconcile" /\ call.in = "empty")

\* The controller has started: nothing is stored, the queue is empty.
InitStore ==
  /\ cr = NoCR
  /\ secrets = [n \in SecretNames |-> NoSecret]
  /\ queued = FALSE
  /\ timer = FALSE
  /\ pc = "idle"
  /\ obj = NoCR
  /\ secret = NoSecret
  /\ stale = FALSE
  /\ secStale = FALSE
  /\ result = EmptyResult
  /\ log = <<>>
  /\ errs = MaxErrs
  /\ oobs = MaxOob
  /\ lives = 0
  /\ oob = {}
  /\ hist = "x"

Init == InitStore /\ call = NoCall

\* ------------------------------------------------- the reconcile pass
\* Mutant: the MAC check is left out.
Validate_NoMacCheck(o, l) ==
  IF o.payload.sops = "nil"
  THEN /\ obj' = setCondition(
                   setCondition(o, ConditionTypeDecrypted, "False", "ValidationFailed"),
                   ConditionTypeReady, "False", "ValidationFailed")
       /\ log' = l \o <<Event(ReasonValidationFail)>>
       /\ pc' = "status_update"
  ELSE /\ obj' = o
       /\ log' = l
       /\ pc' = "decrypt"

\* Reconcile, lines 165-183: the two validation checks; on success the pass
\* goes on to the decrypt call.
Validate(o, l) ==
  IF o.payload.sops = "nil" \/ o.payload.sops = "nomac"
  THEN /\ obj' = setCondition(
                   setCondition(o, ConditionTypeDecrypted, "False", "ValidationFailed"),
                   ConditionTypeReady, "False", "ValidationFailed")
       /\ log' = l \o <<Event(ReasonValidationFail)>>
       /\ pc' = "status_update"
  ELSE /\ obj' = o
       /\ log' = l
       /\ pc' = "decrypt"

\* Mutant: spec.suspend is not looked at.
Fetch_IgnoreSuspend ==
  /\ UNCHANGED call
  /\ pc = "idle"
  /\ queued
  /\ queued' = FALSE
  /\ stale' = FALSE
  /\ secStale' = FALSE
  /\ hist' = HistAtStart
  /\ UNCHANGED <<cr, secrets, timer, secret, oobs, lives, oob>>
  /\ \E fail \in FailChoices :
       /\ Spend(fail)
       /\ IF fail
          THEN Done(ErrResult("error"), <<Call("GetCR", "error")>>) /\ obj' = obj
          ELSE IF ~cr.exists
          THEN Done(EmptyResult, <<Call("GetCR", "notfound")>>) /\ obj' = obj
          ELSE IF cr.deleting
          THEN IF cr.finalizer
               THEN /\ pc' = "del_get"
                    /\ obj' = cr
                    /\ log' = <<Call("GetCR", "ok")>>
                    /\ result' = result
               ELSE Done(EmptyResult, <<Call("GetCR", "ok")>>) /\ obj' = cr
          ELSE IF ~cr.finalizer
          THEN /\ pc' = "fin_update"
               /\ obj' = [cr EXCEPT !.finalizer = TRUE]
               /\ log' = <<Call("GetCR", "ok")>>
               /\ result' = result
          ELSE IF /\ cr.status.hash = calculateHash(PayloadYAML(cr))
                  /\ cr.status.og = cr.generation
          THEN /\ pc' = "skip_get"
               /\ obj' = cr
               /\ log' = <<Call("GetCR", "ok")>>
               /\ result' = result
          ELSE /\ Validate(cr, <<Call("GetCR", "ok")>>)
               /\ result' = result

\* Mutant: a SopsSecret that is not found is returned as an error.
Fetch_NotFoundIsError ==
  /\ UNCHANGED call
  /\ pc = "idle"
  /\ queued
  /\ queued' = FALSE
  /\ stale' = FALSE
  /\ secStale' = FALSE
  /\ hist' = HistAtStart
  /\ UNCHANGED <<cr, secrets, timer, secret, oobs, lives, oob>>
  /\ \E fail \in FailChoices :
       /\ Spend(fail)
       /\ IF fail
          THEN Done(ErrResult("error"), <<Call("GetCR", "error")>>) /\ obj' = obj
          ELSE IF ~cr.exists
          THEN Done(ErrResult("notfound"), <<Call("GetCR", "notfound")>>) /\ obj' = obj
          ELSE IF cr.deleting
          THEN IF cr.finalizer
               THEN /\ pc' = "del_get"
                    /\ obj' = cr
                    /\ log' = <<Call("GetCR", "ok")>>
                    /\ result' = result
               ELSE Done(EmptyResult, <<Call("GetCR", "ok")>>) /\ obj' = cr
          ELSE IF ~cr.finalizer
          THEN /\ pc' = "fin_update"
               /\ obj' = [cr EXCEPT !.finalizer = TRUE]
               /\ log' = <<Call("GetCR", "ok")>>
               /\ result' = result
          ELSE IF cr.suspend
          THEN Done(EmptyResult, <<Call("GetCR", "ok")>>) /\ obj' = cr
          ELSE IF /\ cr.status.hash = calculateHash(PayloadYAML(cr))
                  /\ cr.status.og = cr.generation
          THEN /\ pc' = "skip_get"
               /\ obj' = cr
               /\ log' = <<Call("GetCR", "ok")>>
               /\ result' = result
          ELSE /\ Validate(cr, <<Call("GetCR", "ok")>>)
               /\ result' = result

\* Mutant: the deletion branch does not look for the finalizer.
Fetch_DeleteWithoutFinalizer ==
  /\ UNCHANGED call
  /\ pc = "idle"
  /\ queued
  /\ queued' = FALSE
  /\ stale' = FALSE
  /\ secStale' = FALSE
  /\ hist' = HistAtStart
  /\ UNCHANGED <<cr, secrets, timer, secret, oobs, lives, oob>>
  /\ \E fail \in FailChoices :
       /\ Spend(fail)
       /\ IF fail
          THEN Done(ErrResult("error"), <<Call("GetCR", "error")>>) /\ obj' = obj
          ELSE IF ~cr.exists
          THEN Done(EmptyResult, <<Call("GetCR", "notfound")>>) /\ obj' = obj
          ELSE IF cr.deleting
          THEN /\ pc' = "del_get"
               /\ obj' = cr
               /\ log' = <<Call("GetCR", "ok")>>
               /\ result' = result
          ELSE IF ~cr.finalizer
          THEN /\ pc' = "fin_update"
               /\ obj' = [cr EXCEPT !.finalizer = TRUE]
               /\ log' = <<Call("GetCR", "ok")>>
               /\ result' = result
          ELSE IF cr.suspend
          THEN Done(EmptyResult, <<Call("GetCR", "ok")>>) /\ obj' = cr
          ELSE IF /\ cr.status.hash = calculateHash(PayloadYAML(cr))
                  /\ cr.status.og = cr.generation
          THEN /\ pc' = "skip_get"
               /\ obj' = cr
               /\ log' = <<Call("GetCR", "ok")>>
               /\ result' = result
          ELSE /\ Validate(cr, <<Call("GetCR", "ok")>>)
               /\ result' = result

\* Mutant: the suspension check comes before the deletion branch.
Fetch_SuspendFirst ==
  /\ UNCHANGED call
  /\ pc = "idle"
  /\ queued
  /\ queued' = FALSE
  /\ stale' = FALSE
  /\ secStale' = FALSE
  /\ hist' = HistAtStart
  /\ UNCHANGED <<cr, secrets, timer, secret, oobs, lives, oob>>
  /\ \E fail \in FailChoices :
       /\ Spend(fail)
       /\ IF fail
          THEN Done(ErrResult("error"), <<Call("GetCR", "error")>>) /\ obj' = obj
          ELSE IF ~cr.exists
          THEN Done(EmptyResult, <<Call("GetCR", "notfound")>>) /\ obj' = obj
          ELSE IF cr.suspend
          THEN Done(EmptyResult, <<Call("GetCR", "ok")>>) /\ obj' = cr
          ELSE IF cr.deleting
          THEN IF cr.finalizer
               THEN /\ pc' = "del_get"
                    /\ obj' = cr
                    /\ log' = <<Call("GetCR", "ok")>>
                    /\ result' = result
               ELSE Done(EmptyResult, <<Call("GetCR", "ok")>>) /\ obj' = cr
          ELSE IF ~cr.finalizer
          THEN /\ pc' = "fin_update"
               /\ obj' = [cr EXCEPT !.finalizer = TRUE]
               /\ log' = <<Call("GetCR", "ok")>>
               /\ result' = result
          ELSE IF cr.suspend
          THEN Done(EmptyResult, <<Call("GetCR", "ok")>>) /\ obj' = cr
          ELSE IF /\ cr.status.hash = calculateHash(PayloadYAML(cr))
                  /\ cr.status.og = cr.generation
          THEN /\ pc' = "skip_get"
               /\ obj' = cr
               /\ log' = <<Call("GetCR", "ok")>>
               /\ result' = result
          ELSE /\ Validate(cr, <<Call("GetCR", "ok")>>)
               /\ result' = result

\* Reconcile, lines 95-146: fetch, deletion branch, finalizer branch,
\* suspension check, payload hash and the digest comparison.
Fetch ==
  /\ UNCHANGED call
  /\ pc = "idle"
  /\ queued
  /\ queued' = FALSE
  /\ stale' = FALSE
  /\ secStale' = FALSE
  /\ hist' = HistAtStart
  /\ UNCHANGED <<cr, secrets, timer, secret, oobs, lives, oob>>
  /\ \E fail \in FailChoices :
       /\ Spend(fail)
       /\ IF fail
          THEN Done(ErrResult("error"), <<Call("GetCR", "error")>>) /\ obj' = obj
          ELSE IF ~cr.exists
          THEN Done(EmptyResult, <<Call("GetCR", "notfound")>>) /\ obj' = obj
          ELSE IF cr.deleting
          THEN IF cr.finalizer
               THEN /\ pc' = "del_get"
                    /\ obj' = cr
                    /\ log' = <<Call("GetCR", "ok")>>
                    /\ result' = result
               ELSE Done(EmptyResult, <<Call("GetCR", "ok")>>) /\ obj' = cr
          ELSE IF ~cr.finalizer
          THEN /\ pc' = "fin_update"
               /\ obj' = [cr EXCEPT !.finalizer = TRUE]
               /\ log' = <<Call("GetCR", "ok")>>
               /\ result' = result
          ELSE IF cr.suspend
          THEN Done(EmptyResult, <<Call("GetCR", "ok")>>) /\ obj' = cr
          ELSE IF /\ cr.status.hash = calculateHash(PayloadYAML(cr))
                  /\ cr.status.og = cr.generation
          THEN /\ pc' = "skip_get"
               /\ obj' = cr
               /\ log' = <<Call("GetCR", "ok")>>
               /\ result' = result
          ELSE /\ Validate(cr, <<Call("GetCR", "ok")>>)
               /\ result' = result

\* Mutant: with the finalizer persisted the pass goes on to decrypt.
FinUpdate_GoOn ==
  /\ UNCHANGED call
  /\ pc = "fin_update"
  /\ UNCHANGED <<hist, secrets, timer, obj, secret, stale, secStale, oobs, lives, oob>>
  /\ \E fail \in FailChoices :
       /\ Spend(fail)
       /\ IF fail
          THEN Done(ErrResult("error"), <<Call("UpdateCR", "error")>>)
               /\ UNCHANGED <<cr, queued>>
          ELSE IF ~cr.exists
          THEN Done(ErrResult("notfound"), <<Call("UpdateCR", "notfound")>>)
               /\ UNCHANGED <<cr, queued>>
          ELSE IF stale
          THEN Done(ErrResult("conflict"), <<Call("UpdateCR", "conflict")>>)
               /\ UNCHANGED <<cr, queued>>
          ELSE /\ cr' = [cr EXCEPT !.finalizer = TRUE]
               /\ queued' = TRUE
               /\ pc' = "decrypt"
               /\ log' = log \o <<Call("UpdateCR", "ok")>>
               /\ result' = result

\* Reconcile, lines 116-119: persist the added finalizer, requeue.
FinUpdate ==
  /\ UNCHANGED call
  /\ pc = "fin_update"
  /\ UNCHANGED <<hist, secrets, timer, obj, secret, stale, secStale, oobs, lives, oob>>
  /\ \E fail \in FailChoices :
       /\ Spend(fail)
       /\ IF fail
          THEN Done(ErrResult("error"), <<Call("UpdateCR", "error")>>)
               /\ UNCHANGED <<cr, queued>>
          ELSE IF ~cr.exists
          THEN Done(ErrResult("notfound"), <<Call("UpdateCR", "notfound")>>)
               /\ UNCHANGED <<cr, queued>>
          ELSE IF stale
          THEN Done(ErrResult("conflict"), <<Call("UpdateCR", "conflict")>>)
               /\ UNCHANGED <<cr, queued>>
          ELSE /\ cr' = [cr EXCEPT !.finalizer = TRUE]
               /\ queued' = TRUE
               /\ Done([requeue |-> TRUE, requeueAfter |-> 0, err |-> "nil"],
                       <<Call("UpdateCR", "ok")>>)

\* Mutant: the pass reconciles in full although the Secret exists.
SkipGet_NoSkip ==
  /\ UNCHANGED call
  /\ pc = "skip_get"
  /\ UNCHANGED <<hist, cr, secrets, queued, timer, secret, stale, secStale, oobs, lives, oob>>
  /\ \E fail \in FailChoices :
       /\ Spend(fail)
       /\ IF fail
          THEN Done(ErrResult("error"), <<Call("GetSecret", "error")>>) /\ obj' = obj
          ELSE /\ Validate(obj, log \o <<Call("GetSecret",
                      IF secrets[getSecretName(obj)].present THEN "ok" ELSE "notfound")>>)
               /\ result' = result

\* Reconcile, lines 147-163: the lookup of the digest skip.
SkipGet ==
  /\ UNCHANGED call
  /\ pc = "skip_get"
  /\ UNCHANGED <<hist, cr, secrets, queued, timer, secret, stale, secStale, oobs, lives, oob>>
  /\ \E fail \in FailChoices :
       /\ Spend(fail)
       /\ IF fail
          THEN Done(ErrResult("error"), <<Call("GetSecret", "error")>>) /\ obj' = obj
          ELSE IF secrets[getSecretName(obj)].present
          THEN Done(EmptyResult, <<Call("GetSecret", "ok")>>) /\ obj' = obj
          ELSE /\ Validate(obj, log \o <<Call("GetSecret", "notfound")>>)
               /\ result' = result

\* Mutant: the observed generation is one too high.
CommitFields_OffByOne(o, name) ==
  setCondition([o EXCEPT !.status.secretName = name,
                         !.status.hash = calculateHash(PayloadYAML(o)),
                         !.status.og = o.generation + 1,
                         !.status.time = "now"],
               ConditionTypeReady, "True", "Success")

\* Mutant: the hash of the payload is not recorded.
CommitFields_KeepHash(o, name) ==
  setCondition([o EXCEPT !.status.secretName = name,
                         !.status.og = o.generation,
                         !.status.time = "now"],
               ConditionTypeReady, "True", "Success")

\* Mutant: the fields are set, the Ready condition is left as it was.
CommitFields_NoCondition(o, name) ==
  [o EXCEPT !.status.secretName = name,
            !.status.hash = calculateHash(PayloadYAML(o)),
            !.status.og = o.generation,
            !.status.time = "now"]

\* Reconcile, lines 244-251: the status fields of a successful pass.
CommitFields(o, name) ==
  setCondition([o EXCEPT !.status.secretName = name,
                         !.status.hash = calculateHash(PayloadYAML(o)),
                         !.status.og = o.generation,
                         !.status.time = "now"],
               ConditionTypeReady, "True", "Success")

\* Mutant: a decrypt failure is returned to the queue as an error.
Decrypt_ReturnsError ==
  /\ UNCHANGED call
  /\ pc = "decrypt"
  /\ UNCHANGED <<hist, cr, secrets, queued, timer, stale, secStale, oobs, lives, oob>>
  /\ \E fail \in FailChoices :
       /\ Spend(fail)
       /\ LET d == SopsPlain(obj.payload) IN
          IF fail \/ ~d.ok
          THEN /\ Done(ErrResult("error"), <<Call("Decrypt", "error")>>)
               /\ UNCHANGED <<obj, secret>>
          ELSE /\ obj' = setCondition(obj, ConditionTypeDecrypted, "True", "Success")
               /\ log' = log \o <<Call("Decrypt", "ok"), Event(ReasonDecrypted)>>
               /\ secret' = buildSecret(obj, d.data)
               /\ pc' = "apply_get"
               /\ result' = result

\* Mutant: the error of SetControllerReference is dropped and the pass goes
\* on to the write.
Decrypt_IgnoreOwnerError ==
  /\ UNCHANGED call
  /\ pc = "decrypt"
  /\ UNCHANGED <<hist, cr, secrets, queued, timer, stale, secStale, result, oobs, lives, oob>>
  /\ \E fail \in FailChoices :
       /\ Spend(fail)
       /\ LET d == SopsPlain(obj.payload) IN
          IF fail \/ ~d.ok
          THEN /\ obj' = setCondition(
                           setCondition(obj, ConditionTypeDecrypted, "False", "DecryptFailed"),
                           ConditionTypeReady, "False", "DecryptFailed")
               /\ log' = log \o <<Call("Decrypt", "error"), Event(ReasonDecryptFailed)>>
               /\ secret' = secret
               /\ pc' = "status_update"
          ELSE /\ obj' = setCondition(obj, ConditionTypeDecrypted, "True", "Success")
               /\ log' = log \o <<Call("Decrypt", "ok"), Event(ReasonDecrypted)>>
               /\ secret' = IF SchemeHasTypes THEN buildSecret(obj, d.data)
                             ELSE [buildSecret(obj, d.data) EXCEPT !.owner = NoOwner]
               /\ pc' = "apply_get"

\* Reconcile, lines 185-208: the decrypt call, the Decrypted condition and
\* the derived Secret with its controller reference; SetControllerReference
\* fails when the scheme of the reconciler does not know the types.
Decrypt ==
  /\ UNCHANGED call
  /\ pc = "decrypt"
  /\ UNCHANGED <<hist, cr, secrets, queued, timer, stale, secStale, oobs, lives, oob>>
  /\ \E fail \in FailChoices :
       /\ Spend(fail)
       /\ LET d == SopsPlain(obj.payload) IN
          IF fail \/ ~d.ok
          THEN /\ obj' = setCondition(
                           setCondition(obj, ConditionTypeDecrypted, "False", "DecryptFailed"),
                           ConditionTypeReady, "False", "DecryptFailed")
               /\ log' = log \o <<Call("Decrypt", "error"), Event(ReasonDecryptFailed)>>
               /\ secret' = secret
               /\ pc' = "status_update"
               /\ result' = result
          ELSE IF ~SchemeHasTypes
          THEN /\ obj' = setCondition(obj, ConditionTypeDecrypted, "True", "Success")
               /\ secret' = secret
               /\ Done(ErrResult("error"),
                       <<Call("Decrypt", "ok"), Event(ReasonDecrypted),
                         Call("SetControllerReference", "error")>>)
          ELSE /\ obj' = setCondition(obj, ConditionTypeDecrypted, "True", "Success")
               /\ log' = log \o <<Call("Decrypt", "ok"), Event(ReasonDecrypted)>>
               /\ secret' = buildSecret(obj, d.data)
               /\ pc' = "apply_get"
               /\ result' = result

\* Mutant: a failed lookup is taken for a Secret that exists.
ApplyGet_SwallowError ==
  /\ UNCHANGED call
  /\ pc = "apply_get"
  /\ UNCHANGED <<hist, cr, secrets, queued, timer, obj, secret, stale, oobs, lives, oob>>
  /\ secStale' = FALSE
  /\ \E fail \in FailChoices :
       /\ Spend(fail)
       /\ IF fail
          THEN /\ pc' = "apply_update"
               /\ log' = log \o <<Call("GetSecret", "error")>>
               /\ result' = result
          ELSE IF secrets[secret.name].present
          THEN /\ pc' = "apply_update"
               /\ log' = log \o <<Call("GetSecret", "ok")>>
               /\ result' = result
          ELSE /\ pc' = "apply_create"
               /\ log' = log \o <<Call("GetSecret", "notfound")>>
               /\ result' = result

\* Reconcile, lines 210-217, 226-228: the lookup before the write.
ApplyGet ==
  /\ UNCHANGED call
  /\ pc = "apply_get"
  /\ UNCHANGED <<hist, cr, secrets, queued, timer, obj, secret, stale, oobs, lives, oob>>
  /\ secStale' = FALSE
  /\ \E fail \in FailChoices :
       /\ Spend(fail)
       /\ IF fail
          THEN Done(ErrResult("error"), <<Call("GetSecret", "error")>>)
          ELSE IF secrets[secret.name].present
          THEN /\ pc' = "apply_update"
               /\ log' = log \o <<Call("GetSecret", "ok")>>
               /\ result' = result
          ELSE /\ pc' = "apply_create"
               /\ log' = log \o <<Call("GetSecret", "notfound")>>
               /\ result' = result

\* Reconcile, lines 217-225 and 244-251: create the Secret.
ApplyCreate ==
  /\ UNCHANGED call
  /\ pc = "apply_create"
  /\ UNCHANGED <<hist, cr, timer, secret, stale, secStale, oobs, lives>>
  /\ \E fail \in FailChoices :
       /\ Spend(fail)
       /\ IF fail
          THEN Done(ErrResult("error"), <<Call("CreateSecret", "error")>>)
               /\ UNCHANGED <<secrets, queued, obj, oob>>
          ELSE IF secrets[secret.name].present
          THEN Done(ErrResult("alreadyexists"), <<Call("CreateSecret", "alreadyexists")>>)
               /\ UNCHANGED <<secrets, queued, obj, oob>>
          ELSE /\ secrets' = [secrets EXCEPT ![secret.name] = secret]
               /\ queued' = TRUE
               /\ oob' = oob \ {secret.name}
               /\ obj' = CommitFields(obj, secret.name)
               /\ log' = log \o <<Call("CreateSecret", "ok"), Event(ReasonSecretCreated)>>
               /\ pc' = "status_update"
               /\ result' = result

\* Mutant: the derived data, labels and annotations are merged into the
\* existing ones.
ApplyUpdate_Merge ==
  /\ UNCHANGED call
  /\ pc = "apply_update"
  /\ UNCHANGED <<hist, cr, timer, secret, stale, secStale, oobs, lives>>
  /\ \E fail \in FailChoices :
       /\ Spend(fail)
       /\ IF fail
          THEN Done(ErrResult("error"), <<Call("UpdateSecret", "error")>>)
               /\ UNCHANGED <<secrets, queued, obj, oob>>
          ELSE IF ~secrets[secret.name].present
          THEN Done(ErrResult("notfound"), <<Call("UpdateSecret", "notfound")>>)
               /\ UNCHANGED <<secrets, queued, obj, oob>>
          ELSE IF secStale
          THEN Done(ErrResult("conflict"), <<Call("UpdateSecret", "conflict")>>)
               /\ UNCHANGED <<secrets, queued, obj, oob>>
          ELSE /\ secrets' = [secrets EXCEPT
                    ![secret.name].data = Assign(@, secret.data),
                    ![secret.name].labels = Assign(@, secret.labels),
                    ![secret.name].annotations = Assign(@, secret.annotations),
                    ![secret.name].type = secret.type]
               /\ queued' = (queued \/ OwnedByKey(secrets[secret.name]))
               /\ oob' = oob \ {secret.name}
               /\ obj' = CommitFields(obj, secret.name)
               /\ log' = log \o <<Call("UpdateSecret", "ok"), Event(ReasonSecretUpdated)>>
               /\ pc' = "status_update"
               /\ result' = result

\* Reconcile, lines 228-242 and 244-251: overwrite the existing Secret. The
\* store takes the update as it is sent (the API server's validation of the
\* fields is not modelled).
ApplyUpdate ==
  /\ UNCHANGED call
  /\ pc = "apply_update"
  /\ UNCHANGED <<hist, cr, timer, secret, stale, secStale, oobs, lives>>
  /\ \E fail \in FailChoices :
       /\ Spend(fail)
       /\ IF fail
          THEN Done(ErrResult("error"), <<Call("UpdateSecret", "error")>>)
               /\ UNCHANGED <<secrets, queued, obj, oob>>
          ELSE IF ~secrets[secret.name].present
          THEN Done(ErrResult("notfound"), <<Call("UpdateSecret", "notfound")>>)
               /\ UNCHANGED <<secrets, queued, obj, oob>>
          ELSE IF secStale
          THEN Done(ErrResult("conflict"), <<Call("UpdateSecret", "conflict")>>)
               /\ UNCHANGED <<secrets, queued, obj, oob>>
          ELSE /\ secrets' = [secrets EXCEPT ![secret.name].data = secret.data,
                                           ![secret.name].labels = secret.labels,
                                           ![secret.name].annotations = secret.annotations,
                                           ![secret.name].type = secret.type]
               /\ queued' = (queued \/ OwnedByKey(secrets[secret.name]))
               /\ oob' = oob \ {secret.name}
               /\ obj' = CommitFields(obj, secret.name)
               /\ log' = log \o <<Call("UpdateSecret", "ok"), Event(ReasonSecretUpdated)>>
               /\ pc' = "status_update"
               /\ result' = result

\* Mutant: the status write is followed by an empty result.
StatusUpdate_NoRequeue ==
  /\ UNCHANGED call
  /\ pc = "status_update"
  /\ UNCHANGED <<hist, secrets, timer, obj, secret, stale, secStale, oobs, lives, oob>>
  /\ \E fail \in FailChoices :
       /\ Spend(fail)
       /\ IF fail
          THEN Done(ErrResult("error"), <<Call("UpdateStatus", "error")>>)
               /\ UNCHANGED <<cr, queued>>
          ELSE IF ~cr.exists
          THEN Done(ErrResult("notfound"), <<Call("UpdateStatus", "notfound")>>)
               /\ UNCHANGED <<cr, queued>>
          ELSE IF stale
          THEN Done(ErrResult("conflict"), <<Call("UpdateStatus", "conflict")>>)
               /\ UNCHANGED <<cr, queued>>
          ELSE /\ cr' = [cr EXCEPT !.status = obj.status]
               /\ queued' = TRUE
               /\ Done(EmptyResult, <<Call("UpdateStatus", "ok")>>)

\* updateStatus, lines 342-349.
StatusUpdate ==
  /\ UNCHANGED call
  /\ pc = "status_update"
  /\ UNCHANGED <<hist, secrets, timer, obj, secret, stale, secStale, oobs, lives, oob>>
  /\ \E fail \in FailChoices :
       /\ Spend(fail)
       /\ IF fail
          THEN Done(ErrResult("error"), <<Call("UpdateStatus", "error")>>)
               /\ UNCHANGED <<cr, queued>>
          ELSE IF ~cr.exists
          THEN Done(ErrResult("notfound"), <<Call("UpdateStatus", "notfound")>>)
               /\ UNCHANGED <<cr, queued>>
          ELSE IF stale
          THEN Done(ErrResult("conflict"), <<Call("UpdateStatus", "conflict")>>)
               /\ UNCHANGED <<cr, queued>>
          ELSE /\ cr' = [cr EXCEPT !.status = obj.status]
               /\ queued' = TRUE
               /\ Done([requeue |-> FALSE, requeueAfter |-> RequeueAfterSeconds,
                        err |-> "nil"],
                       <<Call("UpdateStatus", "ok")>>)

\* Mutant: the Secret it controls is not deleted.
DelGet_SkipDelete ==
  /\ UNCHANGED call
  /\ pc = "del_get"
  /\ UNCHANGED <<hist, cr, secrets, queued, timer, obj, secret, stale, secStale, oobs, lives, oob>>
  /\ \E fail \in FailChoices :
       /\ Spend(fail)
       /\ IF fail
          THEN Done(ErrResult("error"), <<Call("GetSecret", "error")>>)
          ELSE /\ pc' = "del_update"
               /\ log' = log \o <<Call("GetSecret",
                      IF secrets[getSecretName(obj)].present THEN "ok" ELSE "notfound")>>
               /\ result' = result

\* reconcileDelete, lines 259-280: look the managed Secret up.
DelGet ==
  /\ UNCHANGED call
  /\ pc = "del_get"
  /\ UNCHANGED <<hist, cr, secrets, queued, timer, obj, secret, stale, secStale, oobs, lives, oob>>
  /\ \E fail \in FailChoices :
       /\ Spend(fail)
       /\ IF fail
          THEN Done(ErrResult("error"), <<Call("GetSecret", "error")>>)
          ELSE IF ~secrets[getSecretName(obj)].present
          THEN /\ pc' = "del_update"
               /\ log' = log \o <<Call("GetSecret", "notfound")>>
               /\ result' = result
          ELSE IF IsControlledBy(secrets[getSecretName(obj)], obj)
          THEN /\ pc' = "del_delete"
               /\ log' = log \o <<Call("GetSecret", "ok"), Call("IsControlledBy", "true")>>
               /\ result' = result
          ELSE /\ pc' = "del_update"
               /\ log' = log \o <<Call("GetSecret", "ok"), Call("IsControlledBy", "false")>>
               /\ result' = result

\* reconcileDelete, lines 270-277: delete the Secret it controls.
DelDelete ==
  /\ UNCHANGED call
  /\ pc = "del_delete"
  /\ UNCHANGED <<hist, cr, timer, obj, secret, stale, secStale, oobs, lives>>
  /\ \E fail \in FailChoices :
       /\ Spend(fail)
       /\ IF fail
          THEN Done(ErrResult("error"), <<Call("DeleteSecret", "error")>>)
               /\ UNCHANGED <<secrets, queued, oob>>
          ELSE IF ~secrets[getSecretName(obj)].present
          THEN /\ pc' = "del_update"
               /\ log' = log \o <<Call("DeleteSecret", "notfound"), Event(ReasonSecretDeleted)>>
               /\ result' = result
               /\ UNCHANGED <<secrets, queued, oob>>
          ELSE /\ secrets' = [secrets EXCEPT ![getSecretName(obj)] = NoSecret]
               /\ queued' = (queued \/ OwnedByKey(secrets[getSecretName(obj)]))
               /\ oob' = oob \ {getSecretName(obj)}
               /\ pc' = "del_update"
               /\ log' = log \o <<Call("DeleteSecret", "ok"), Event(ReasonSecretDeleted)>>
               /\ result' = result

\* Mutant: the update is sent with the finalizer still in place.
DelUpdate_KeepFinalizer ==
  /\ UNCHANGED call
  /\ pc = "del_update"
  /\ UNCHANGED <<hist, secrets, timer, obj, secret, stale, secStale, oobs, lives, oob>>
  /\ \E fail \in FailChoices :
       /\ Spend(fail)
       /\ IF fail
          THEN Done(ErrResult("error"), <<Call("UpdateCR", "error")>>)
               /\ UNCHANGED <<cr, queued>>
          ELSE /\ Done(EmptyResult, <<Call("UpdateCR", "ok")>>)
               /\ UNCHANGED <<cr, queued>>

\* reconcileDelete, lines 282-289: remove the finalizer; the API server then
\* removes the object, which has a deletion timestamp and no finalizer left.
DelUpdate ==
  /\ UNCHANGED call
  /\ pc = "del_update"
  /\ UNCHANGED <<hist, secrets, timer, obj, secret, stale, secStale, oobs, lives, oob>>
  /\ \E fail \in FailChoices :
       /\ Spend(fail)
       /\ IF fail
          THEN Done(ErrResult("error"), <<Call("UpdateCR", "error")>>)
               /\ UNCHANGED <<cr, queued>>
          ELSE IF ~cr.exists
          THEN Done(ErrResult("notfound"), <<Call("UpdateCR", "notfound")>>)
               /\ UNCHANGED <<cr, queued>>
          ELSE IF stale
          THEN Done(ErrResult("conflict"), <<Call("UpdateCR", "conflict")>>)
               /\ UNCHANGED <<cr, queued>>
          ELSE /\ cr' = [NoCR EXCEPT !.uid = cr.uid, !.secretName = cr.secretName]
               /\ queued' = TRUE
               /\ Done(EmptyResult, <<Call("UpdateCR", "ok")>>)

\* The work queue takes the result of the pass: an error and Requeue put the
\* key back, RequeueAfter arms the timer; the worker is free again.
Return ==
  /\ UNCHANGED call
  /\ pc = "done"
  /\ pc' = "idle"
  /\ queued' = (queued \/ result.err # "nil" \/ result.requeue)
  /\ timer' = (timer \/ (result.err = "nil" /\ result.requeueAfter > 0))
  /\ obj' = NoCR
  /\ secret' = NoSecret
  /\ stale' = FALSE
  /\ secStale' = FALSE
  /\ result' = EmptyResult
  /\ log' = <<>>
  /\ hist' = HistAtReturn
  /\ UNCHANGED <<cr, secrets, errs, oobs, lives, oob>>

\* The delay of a RequeueAfter is over.
TimerFire ==
  /\ UNCHANGED call
  /\ timer
  /\ timer' = FALSE
  /\ queued' = TRUE
  /\ UNCHANGED <<hist, cr, secrets, pc, obj, secret, stale, secStale, result, log,
                 errs, oobs, lives, oob>>

\* ------------------------------------------------------- the environment
\* kubectl apply of a new SopsSecret.
UserCreate ==
  /\ UNCHANGED call
  /\ ~cr.exists
  /\ lives < MaxLives
  /\ \E p \in Payloads, sn \in SpecSecretNames, su \in BOOLEAN :
       cr' = [NoCR EXCEPT !.exists = TRUE, !.uid = UidOf(lives + 1),
                          !.generation = 1, !.payload = p,
                          !.secretName = sn, !.suspend = su,
                          !.secretLabels = UserLabels,
                          !.secretAnnotations = UserAnnotations,
                          !.secretType = UserType]
  /\ lives' = lives + 1
  /\ queued' = TRUE
  /\ stale' = InFlight
  /\ hist' = "x"
  /\ UNCHANGED <<secrets, timer, pc, obj, secret, secStale, result, log, errs, oobs, oob>>

\* The user edits one field of the spec, or the encrypted payload with its
\* sops block: the generation goes up.
UserEdit ==
  /\ UNCHANGED call
  /\ cr.exists
  /\ cr.generation < MaxGen
  /\ \/ \E p \in Payloads \ {cr.payload} :
          cr' = [cr EXCEPT !.generation = @ + 1, !.payload = p]
     \/ \E sn \in SpecSecretNames \ {cr.secretName} :
          cr' = [cr EXCEPT !.generation = @ + 1, !.secretName = sn]
     \/ cr' = [cr EXCEPT !.generation = @ + 1, !.suspend = ~cr.suspend]
  /\ queued' = TRUE
  /\ stale' = InFlight
  /\ hist' = "x"
  /\ UNCHANGED <<secrets, timer, pc, obj, secret, secStale, result, log, errs,
                 oobs, lives, oob>>

\* kubectl delete: with a finalizer the object gets a deletion timestamp,
\* without one it is removed.
UserDelete ==
  /\ UNCHANGED call
  /\ cr.exists
  /\ ~cr.deleting
  /\ cr' = IF cr.finalizer THEN [cr EXCEPT !.deleting = TRUE]
           ELSE [NoCR EXCEPT !.uid = cr.uid, !.secretName = cr.secretName]
  /\ queued' = TRUE
  /\ stale' = InFlight
  /\ hist' = "x"
  /\ UNCHANGED <<secrets, timer, pc, obj, secret, secStale, result, log, errs,
                 oobs, lives, oob>>

\* The pass holds a copy of the Secret of that name, read for the update.
HoldsSecret(n) == pc = "apply_update" /\ secret.name = n

\* Somebody else creates a Secret (no owner, or another controller's).
OobCreate ==
  /\ UNCHANGED call
  /\ oobs > 0
  /\ \E n \in SecretNames, ow \in {NoOwner, OtherOwner} :
       /\ ~secrets[n].present
       /\ secrets' = [secrets EXCEPT ![n] =
             [present |-> TRUE, name |-> n, namespace |-> Namespace,
              data |-> TamperedData,
              owner |-> ow, creator |-> ow, labels |-> ForeignLabels,
              annotations |-> ForeignAnnotations, type |-> ForeignType]]
       /\ oob' = oob \cup {n}
  /\ oobs' = oobs - 1
  /\ hist' = "x"
  /\ UNCHANGED <<cr, queued, timer, pc, obj, secret, stale, secStale, result, log,
                 errs, lives>>

\* Somebody else overwrites the data of a Secret.
OobEdit ==
  /\ UNCHANGED call
  /\ oobs > 0
  /\ \E n \in SecretNames :
       /\ secrets[n].present
       /\ secrets[n].data # TamperedData
       /\ secrets' = [secrets EXCEPT ![n].data = TamperedData]
       /\ oob' = oob \cup {n}
       /\ queued' = (queued \/ OwnedByKey(secrets[n]))
       /\ secStale' = (secStale \/ HoldsSecret(n))
  /\ oobs' = oobs - 1
  /\ hist' = "x"
  /\ UNCHANGED <<cr, timer, pc, obj, secret, stale, result, log, errs, lives>>

\* Somebody else deletes a Secret.
OobDelete ==
  /\ UNCHANGED call
  /\ oobs > 0
  /\ \E n \in SecretNames :
       /\ secrets[n].present
       /\ secrets' = [secrets EXCEPT ![n] = NoSecret]
       /\ oob' = oob \cup {n}
       /\ queued' = (queued \/ OwnedByKey(secrets[n]))
       /\ secStale' = (secStale \/ HoldsSecret(n))
  /\ oobs' = oobs - 1
  /\ hist' = "x"
  /\ UNCHANGED <<cr, timer, pc, obj, secret, stale, result, log, errs, lives>>

\* ------------------------------------------------------- specification
Pass ==
  \/ Fetch \/ FinUpdate \/ SkipGet \/ Decrypt \/ ApplyGet \/ ApplyCreate
  \/ ApplyUpdate \/ StatusUpdate \/ DelGet \/ DelDelete \/ DelUpdate \/ Return

Environment ==
  \/ UserCreate \/ UserEdit \/ UserDelete \/ OobCreate \/ OobEdit \/ OobDelete

Next == Pass \/ TimerFire \/ Environment

Spec == Init /\ [][Next]_vars

TypeOK ==
  /\ pc \in {"idle", "done", "fin_update", "skip_get", "decrypt", "apply_get",
              "apply_create", "apply_update", "status_update", "del_get",
              "del_delete", "del_update"}
  /\ errs \in 0..MaxErrs
  /\ oobs \in 0..MaxOob
  /\ cr.generation \in 0..MaxGen

\* ---------------------------------------------------------------- claims
Ready(o) == CondStatus(o, ConditionTypeReady) = "True"
DerivedSecret == secrets[getSecretName(cr)]
HashOfSpec(o) == calculateHash(PayloadYAML(o))

\* No pass runs and none is pending: the queue is empty and no RequeueAfter
\* is waiting.
AtRest == pc = "idle" /\ ~queued /\ ~timer

\* C1 (as stated): whenever the persisted Ready condition is True, a Secret
\* with the derived name exists, is controlled by this SopsSecret and holds
\* the decryption of the current spec. The states looked at are those in
\* which the operator has nothing left to do: the status has observed the
\* current generation, there is no deletion timestamp, and no pass runs or
\* is pending (so a Ready that is only waiting for the pass after a change
\* does not count).
C1_ReadyImpliesSecret ==
  ( /\ cr.exists /\ Ready(cr)
    /\ cr.status.og = cr.generation
    /\ ~cr.deleting
    /\ AtRest ) =>
    /\ DerivedSecret.present
    /\ IsControlledBy(DerivedSecret, cr)
    /\ SopsPlain(cr.payload).ok
    /\ DerivedSecret.data = SopsPlain(cr.payload).data

\* The pass in flight (or just returned) is a deletion pass.
DeletionPass == pc # "idle" /\ obj.exists /\ obj.deleting

LastCall == IF log = <<>> THEN Call("", "") ELSE log[Len(log)]

\* C2: the finalizer-removal update is issued only after the owned derived
\* Secret has been deleted (delete succeeded or returned not-found): once the
\* finalizer is gone no Secret controlled by the SopsSecret is left under the
\* derived name, a pass that saw a controlled Secret reaches the update only
\* through a delete, and a failed lookup or delete leaves the finalizer.
C2_DeleteBeforeFinalizer ==
  /\ (~cr.exists /\ cr.uid # "") => ~IsControlledBy(DerivedSecret, cr)
  /\ (DeletionPass /\ (pc = "del_update" \/ Call("UpdateCR", "ok") \in Range(log))) =>
       /\ \/ Call("GetSecret", "notfound") \in Range(log)
          \/ Call("IsControlledBy", "false") \in Range(log)
          \/ Call("DeleteSecret", "ok") \in Range(log)
          \/ Call("DeleteSecret", "notfound") \in Range(log)
       /\ Call("IsControlledBy", "true") \in Range(log) =>
            \/ Call("DeleteSecret", "ok") \in Range(log)
            \/ Call("DeleteSecret", "notfound") \in Range(log)
  /\ ( /\ DeletionPass /\ pc = "done"
       /\ LastCall \in {Call("GetSecret", "error"), Call("DeleteSecret", "error")} ) =>
       /\ result.err # "nil"
       /\ cr.exists /\ cr.uid = obj.uid /\ cr.finalizer

C2_Witness ==
  /\ ~cr.exists /\ cr.uid # ""
  /\ pc = "done"
  /\ Call("DeleteSecret", "ok") \in Range(log)
  /\ LastCall = Call("UpdateCR", "ok")

\* ------------------------------------------------------------- liveness
\* The worker runs a pass that is queued to its end, the queue takes the
\* result, and the delay of a RequeueAfter elapses.
SpecLive == Init /\ [][Next]_vars /\ WF_vars(Pass) /\ WF_vars(TimerFire)

\* C3: a SopsSecret with a deletion timestamp and the finalizer eventually
\* has its finalizer removed (the object is gone) with no Secret it controls
\* left under the derived name.
C3_DeletionCompletes ==
  (cr.exists /\ cr.deleting /\ cr.finalizer)
    ~> (~cr.exists /\ ~IsControlledBy(DerivedSecret, cr))

C3_Witness ==
  /\ ~cr.exists /\ cr.uid # ""
  /\ Call("DeleteSecret", "ok") \in Range(log)
  /\ Call("UpdateCR", "ok") \in Range(log)
  /\ errs = 0

\* The SopsSecret is Ready for its current spec, not suspended, not deleted.
Settled ==
  /\ cr.exists /\ ~cr.deleting /\ ~cr.suspend
  /\ cr.status.og = cr.generation

\* A pass for the SopsSecret is enqueued, or will be when the delay of a
\* RequeueAfter is over.
PassPending == queued \/ timer

\* The derived Secret is there again with the decrypted data.
Restored ==
  /\ DerivedSecret.present
  /\ SopsPlain(cr.payload).ok
  /\ DerivedSecret.data = SopsPlain(cr.payload).data

\* C4: self-healing of the Secret the SopsSecret controls. (1) A step of
\* another client that deletes the derived Secret while the SopsSecret
\* controls it enqueues the owner. (2) When the derived Secret of a Ready,
\* unchanged, non-suspended SopsSecret is gone and a pass is enqueued,
\* eventually the Secret exists again with the decrypted data (or the user
\* has changed, suspended or deleted the SopsSecret meanwhile, or another
\* client has put a Secret of its own under the name). (3) The pass that
\* re-creates the Secret after the digest matched leaves
\* status.lastDecryptedHash as it was.
C4_SelfHealing ==
  /\ [][(/\ cr.exists
         /\ IsControlledBy(DerivedSecret, cr)
         /\ ~secrets'[getSecretName(cr)].present
         /\ log' = log) => queued']_vars
  /\ (Settled /\ Ready(cr) /\ ~DerivedSecret.present /\ PassPending)
       ~> ( \/ ~Settled
            \/ Restored
            \/ (DerivedSecret.present /\ DerivedSecret.creator # cr.uid) )
  /\ [][(/\ pc = "status_update"
         /\ Len(log) >= 2 /\ log[2] = Call("GetSecret", "notfound")
         /\ Call("CreateSecret", "ok") \in Range(log)
         /\ LastCall' = Call("UpdateStatus", "ok")) =>
          cr'.status.hash = cr.status.hash]_vars

\* Another client has acted once and no Secret of another client exists:
\* it deleted the Secret the operator had created. The pass enqueued for the
\* owner found the digest matching and no Secret, has created the Secret
\* again and written the status with the hash unchanged.
C4_Witness ==
  /\ pc = "done"
  /\ Len(log) >= 2 /\ log[2] = Call("GetSecret", "notfound")
  /\ Call("CreateSecret", "ok") \in Range(log)
  /\ LastCall = Call("UpdateStatus", "ok")
  /\ cr.exists /\ Settled /\ Ready(cr)
  /\ IsControlledBy(DerivedSecret, cr)
  /\ Restored
  /\ cr.status.hash = HashOfSpec(cr)
  /\ oobs = MaxOob - 1
  /\ \A n \in SecretNames : secrets[n].present => secrets[n].creator = cr.uid

SecretData == [n \in SecretNames |-> <<secrets[n].present, secrets[n].data>>]

\* C5 (as stated): the second of two consecutive passes with no change of
\* the spec or of a Secret in between (none since the first pass began)
\* leaves the data of the Secrets and status.lastDecryptedHash as they were.
C5_Idempotent ==
  [][ (hist \in {"cp_ok", "cp_other"} /\ hist' # "x") =>
        /\ SecretData' = SecretData
        /\ cr'.status.hash = cr.status.hash ]_vars

\* C5 (amended): the same, when the first pass returned without error, did
\* not take the finalizer branch and did not end in a decrypt failure.
C5_IdempotentAmended ==
  [][ (hist = "cp_ok" /\ hist' # "x") =>
        /\ SecretData' = SecretData
        /\ cr'.status.hash = cr.status.hash ]_vars

\* A second pass that followed a successful first pass has gone through the
\* digest skip and returned.
C5_Witness ==
  /\ hist = "cp_ok"
  /\ pc = "done"
  /\ log = <<Call("GetCR", "ok"), Call("GetSecret", "ok")>>
  /\ Ready(cr)

\* C6: status.observedGeneration never exceeds metadata.generation, and when
\* they are equal the status describes the current spec: the recorded hash is
\* the digest of the current payload and the recorded Secret name is the
\* derived name.
C6_ObservedGeneration ==
  cr.exists =>
    /\ cr.status.og <= cr.generation
    /\ cr.status.og = cr.generation =>
         /\ cr.status.hash = HashOfSpec(cr)
         /\ cr.status.secretName = getSecretName(cr)

\* A later generation whose spec a successful pass has observed.
C6_Witness ==
  /\ cr.exists
  /\ cr.generation > 1
  /\ cr.status.og = cr.generation
  /\ pc = "idle"

ReadyGeneration(o) ==
  o.status.conditions[CHOOSE i \in FindCondition(o.status.conditions, ConditionTypeReady) : TRUE].og

\* C7 (as stated): whenever Ready is True, status.lastDecryptedHash is the
\* digest of the current encrypted payload.
C7_DigestCorrect ==
  (cr.exists /\ Ready(cr)) => cr.status.hash = HashOfSpec(cr)

\* C7 (amended): whenever Ready is True and was set for the current
\* generation (the condition's observedGeneration equals
\* metadata.generation), status.lastDecryptedHash is the digest of the
\* current encrypted payload.
C7_DigestCorrectAmended ==
  (cr.exists /\ Ready(cr) /\ ReadyGeneration(cr) = cr.generation) =>
    cr.status.hash = HashOfSpec(cr)

\* Ready for a payload other than the first one of this SopsSecret.
C7_Witness ==
  /\ cr.exists /\ Ready(cr)
  /\ ReadyGeneration(cr) = cr.generation
  /\ cr.generation > 1
  /\ cr.payload.data = "enc-2"
  /\ cr.status.hash = HashOfSpec(cr)

\* The pass went (or goes) through the lookup of the digest skip.
SkipLookup ==
  /\ pc # "idle" /\ obj.exists /\ ~obj.deleting
  /\ Len(log) >= 2
  /\ log[2].op = "GetSecret"

\* C8: when the recorded hash and generation match and the derived Secret
\* exists, the pass ends at once: no decrypt call, no write, no event, an
\* empty result and no error; a not-found lookup continues with the full
\* reconciliation and any other lookup error is returned.
C8_DigestSkip ==
  /\ [](SkipLookup =>
          /\ log[2].res = "ok" =>
               (pc = "done" /\ result = EmptyResult /\ Len(log) = 2)
          /\ log[2].res = "error" =>
               (pc = "done" /\ result = ErrResult("error") /\ Len(log) = 2)
          /\ log[2].res = "notfound" =>
               (pc = "decrypt" \/ (Len(log) > 2 /\ log[3] \in
                  {Call("Decrypt", "ok"), Call("Decrypt", "error"),
                   Event(ReasonValidationFail)})))
  /\ [][ ( /\ pc = "idle" /\ pc' # "idle"
           /\ log' = <<Call("GetCR", "ok")>>
           /\ ~cr.deleting /\ cr.finalizer /\ ~cr.suspend
           /\ cr.status.hash = HashOfSpec(cr)
           /\ cr.status.og = cr.generation ) => pc' = "skip_get" ]_vars
  /\ [][ ( /\ pc = "skip_get" /\ pc' # pc /\ errs' = errs
           /\ secrets[getSecretName(obj)].present ) =>
           /\ pc' = "done" /\ result' = EmptyResult
           /\ UNCHANGED <<cr, secrets, timer>> ]_vars

C8_Witness ==
  /\ SkipLookup
  /\ log[2].res = "ok"
  /\ pc = "done"
  /\ secrets[getSecretName(obj)].present

InLog(e) == e \in Range(log)

SecretWrites ==
  {c \in Range(log) : c.op \in {"CreateSecret", "UpdateSecret", "DeleteSecret"}}

FailureStatus(o, reason) ==
  /\ CondStatus(o, ConditionTypeDecrypted) = "False"
  /\ CondReason(o, ConditionTypeDecrypted) = reason
  /\ CondStatus(o, ConditionTypeReady) = "False"
  /\ CondReason(o, ConditionTypeReady) = reason

PeriodicRequeue ==
  [requeue |-> FALSE, requeueAfter |-> RequeueAfterSeconds, err |-> "nil"]

\* C9: a payload without sops metadata or without a MAC never reaches the
\* decryptor; the pass sets Decrypted=False and Ready=False with reason
\* ValidationFailed, emits the ValidationFailed event, touches no Secret,
\* writes the status and, the write done, returns RequeueAfter = 5 minutes
\* and no error.
C9_ValidationFailure ==
  /\ (pc = "decrypt" \/ InLog(Call("Decrypt", "ok")) \/ InLog(Call("Decrypt", "error")))
       => obj.payload.sops = "ok"
  /\ pc \in {"decrypt", "apply_get", "apply_create", "apply_update", "status_update"}
       => (obj.payload.sops # "ok" <=> InLog(Event(ReasonValidationFail)))
  /\ InLog(Event(ReasonValidationFail)) =>
       /\ pc \in {"status_update", "done"}
       /\ FailureStatus(obj, "ValidationFailed")
       /\ SecretWrites = {}
       /\ (pc = "done" /\ LastCall = Call("UpdateStatus", "ok")) =>
            /\ result = PeriodicRequeue
            /\ cr.exists /\ FailureStatus(cr, "ValidationFailed")
       /\ pc = "done" => LastCall.op = "UpdateStatus"

C9_Witness ==
  /\ InLog(Event(ReasonValidationFail))
  /\ pc = "done"
  /\ result = PeriodicRequeue
  /\ obj.payload.sops = "nomac"
  /\ FailureStatus(cr, "ValidationFailed")

\* C10: when the decryptor returns an error the pass sets Decrypted=False
\* and Ready=False with reason DecryptFailed, emits the DecryptFailed event,
\* changes no Secret, writes the status and, the write done, returns
\* RequeueAfter = 5 minutes and no error.
C10_DecryptFailure ==
  /\ [](InLog(Call("Decrypt", "error")) =>
          /\ InLog(Event(ReasonDecryptFailed))
          /\ pc \in {"status_update", "done"}
          /\ FailureStatus(obj, "DecryptFailed")
          /\ SecretWrites = {}
          /\ (pc = "done" /\ LastCall = Call("UpdateStatus", "ok")) =>
               /\ result = PeriodicRequeue
               /\ cr.exists /\ FailureStatus(cr, "DecryptFailed")
          /\ pc = "done" => LastCall.op = "UpdateStatus")
  /\ [][ (pc \in {"decrypt", "status_update"} /\ pc' # pc
          /\ InLog(Call("Decrypt", "error"))') => secrets' = secrets ]_vars

C10_Witness ==
  /\ InLog(Call("Decrypt", "error"))
  /\ pc = "done"
  /\ result = PeriodicRequeue
  /\ FailureStatus(cr, "DecryptFailed")
  /\ obj.payload.data = "enc-bad"

SecretWritten == InLog(Call("CreateSecret", "ok")) \/ InLog(Call("UpdateSecret", "ok"))

SuccessStatus(o) ==
  /\ CondStatus(o, ConditionTypeDecrypted) = "True"
  /\ CondReason(o, ConditionTypeDecrypted) = "Success"
  /\ CondStatus(o, ConditionTypeReady) = "True"
  /\ CondReason(o, ConditionTypeReady) = "Success"

\* C11: when validation, decryption and the Secret write of a pass succeed,
\* the write leaves the Secret of the derived name with the decrypted data;
\* the status of the pass has secretName = derived name, lastDecryptedHash =
\* digest of the payload read in this pass, observedGeneration = generation
\* read in this pass, Decrypted=True and Ready=True with reason Success; the
\* status write persists exactly that status and, the write done, the pass
\* returns RequeueAfter = 5 minutes and no error.
C11_SuccessfulPass ==
  /\ [](SecretWritten =>
          /\ pc \in {"status_update", "done"}
          /\ InLog(Call("Decrypt", "ok"))
          /\ obj.payload.sops = "ok"
          /\ obj.status.secretName = getSecretName(obj)
          /\ obj.status.hash = HashOfSpec(obj)
          /\ obj.status.og = obj.generation
          /\ SuccessStatus(obj)
          /\ (pc = "done" /\ LastCall = Call("UpdateStatus", "ok")) =>
               result = PeriodicRequeue)
  /\ [][ (pc \in {"apply_create", "apply_update"} /\ pc' = "status_update") =>
           /\ secrets'[getSecretName(obj)].present
           /\ secrets'[getSecretName(obj)].data = SopsPlain(obj.payload).data ]_vars
  /\ [][ (pc = "status_update" /\ SecretWritten /\ pc' = "done"
          /\ LastCall' = Call("UpdateStatus", "ok")) =>
           /\ cr'.status = obj.status
           /\ result' = PeriodicRequeue ]_vars

C11_Witness ==
  /\ pc = "done"
  /\ InLog(Call("CreateSecret", "ok"))
  /\ LastCall = Call("UpdateStatus", "ok")
  /\ result = PeriodicRequeue
  /\ cr.exists /\ SuccessStatus(cr)
  /\ cr.status.hash = HashOfSpec(obj)
  /\ secrets[getSecretName(obj)].data = SopsPlain(obj.payload).data

\* C12: when a Secret of the derived name exists, the update of a successful
\* pass replaces its data, labels, annotations and type with the derived ones
\* (nothing of the old ones is kept: the data has exactly the keys of the new
\* decrypted payload); the status of the pass then carries the digest of the
\* new payload and Ready=True, which the status write persists.
C12_ChangePropagation ==
  /\ [][ (pc = "apply_update" /\ pc' = "status_update") =>
           /\ secrets'[secret.name].data = SopsPlain(obj.payload).data
           /\ Keys(secrets'[secret.name].data) = Keys(SopsPlain(obj.payload).data)
           /\ secrets'[secret.name].labels = buildSecret(obj, {}).labels
           /\ secrets'[secret.name].annotations = buildSecret(obj, {}).annotations
           /\ secrets'[secret.name].type = buildSecret(obj, {}).type
           /\ LastCall' = Event(ReasonSecretUpdated)
           /\ obj'.status.hash = HashOfSpec(obj)
           /\ Ready(obj') ]_vars
  /\ [][ (pc = "status_update" /\ InLog(Call("UpdateSecret", "ok")) /\ pc' = "done"
          /\ LastCall' = Call("UpdateStatus", "ok")) =>
           /\ cr'.status.hash = HashOfSpec(obj)
           /\ Ready(cr') ]_vars

\* A Secret the operator created has been updated for the payload whose only
\* key is username, and holds that key only.
C12_Witness ==
  /\ pc = "done"
  /\ InLog(Call("UpdateSecret", "ok"))
  /\ LastCall = Call("UpdateStatus", "ok")
  /\ obj.payload.data = "enc-2"
  /\ obj.generation > 1
  /\ secrets[secret.name].creator = obj.uid
  /\ Keys(secrets[secret.name].data) = {"username"}
  /\ Ready(cr)

\* C13: a pass that fetched a SopsSecret with the finalizer, no deletion
\* timestamp and spec.suspend = true ends at once with an empty result and no
\* error: no call but the fetch, no event, nothing written.
C13_Suspension ==
  /\ [][ ( /\ pc = "idle" /\ pc' # "idle"
           /\ log' = <<Call("GetCR", "ok")>>
           /\ cr.finalizer /\ ~cr.deleting /\ cr.suspend ) =>
           /\ pc' = "done"
           /\ result' = EmptyResult
           /\ UNCHANGED <<cr, secrets, timer>> ]_vars
  /\ []( ( /\ pc # "idle" /\ obj.exists /\ obj.suspend /\ ~obj.deleting
           /\ pc # "fin_update" /\ ~InLog(Call("UpdateCR", "ok"))
           /\ ~InLog(Call("UpdateCR", "error")) /\ ~InLog(Call("UpdateCR", "conflict"))
           /\ ~InLog(Call("UpdateCR", "notfound")) ) =>
           /\ pc = "done"
           /\ log = <<Call("GetCR", "ok")>>
           /\ result = EmptyResult )

\* A suspended SopsSecret with an undecryptable payload and no Secret.
C13_Witness ==
  /\ pc = "done"
  /\ obj.exists /\ obj.suspend /\ obj.finalizer /\ ~obj.deleting
  /\ log = <<Call("GetCR", "ok")>>
  /\ result = EmptyResult
  /\ obj.payload.data = "enc-bad"
  /\ ~secrets[getSecretName(obj)].present

\* The pass in flight (or just returned) took the finalizer branch and its
\* update went through.
FinalizerPassDone ==
  /\ pc = "done" /\ obj.exists /\ ~obj.deleting
  /\ log = <<Call("GetCR", "ok"), Call("UpdateCR", "ok")>>

\* time.Second, in seconds.
OneSecond == 1

\* C14 (as stated): the pass that adds the finalizer and persists it returns
\* no error and a result whose RequeueAfter is one second.
C14_FinalizerRequeueAfter ==
  FinalizerPassDone =>
    /\ obj.finalizer
    /\ result.err = "nil"
    /\ result.requeueAfter = OneSecond

ApiOps ==
  {"GetCR", "UpdateCR", "GetSecret", "CreateSecret", "UpdateSecret",
   "DeleteSecret", "UpdateStatus"}

\* A not-found the code absorbs: the SopsSecret is gone, the Secret is not
\* there yet, the Secret to delete is gone already.
Absorbed(c) ==
  c \in {Call("GetCR", "notfound"), Call("GetSecret", "notfound"),
         Call("DeleteSecret", "notfound")}

Failed(c) == c.op \in ApiOps /\ c.res # "ok" /\ ~Absorbed(c)

\* C15: a failed API call of a pass (other than an absorbed not-found) is the
\* last thing the pass does: the pass returns that error with an empty
\* result, and the failing step writes nothing.
C15_ErrorsSurface ==
  /\ [](\A i \in 1..Len(log) :
          Failed(log[i]) =>
            /\ i = Len(log)
            /\ pc = "done"
            /\ result = ErrResult(log[i].res))
  /\ [][ (log' # log /\ log' # <<>> /\ Failed(LastCall')) =>
           UNCHANGED <<cr, secrets, timer>> ]_vars
  /\ [][ (pc = "done" /\ pc' = "idle" /\ result.err # "nil") => queued' ]_vars

\* The update of an existing Secret met a conflict.
C15_Witness ==
  /\ pc = "done"
  /\ LastCall = Call("UpdateSecret", "conflict")
  /\ result = ErrResult("conflict")
  /\ InLog(Call("Decrypt", "ok"))

\* C17 (as stated): the deletion branch deletes the Secret of the derived
\* name only if that Secret is controlled by the SopsSecret being deleted: a
\* pass that read a Secret it does not control makes no delete call and emits
\* no SecretDeleted event, and goes on to remove the finalizer; and no step
\* of a deletion pass removes a Secret that is not controlled by its
\* SopsSecret.
C17_DeleteOnlyControlled ==
  /\ []((DeletionPass /\ InLog(Call("IsControlledBy", "false"))) =>
          /\ SecretWrites = {}
          /\ ~InLog(Event(ReasonSecretDeleted))
          /\ pc \in {"del_update", "done"}
          /\ pc = "done" => LastCall.op = "UpdateCR")
  /\ []((DeletionPass /\ InLog(Event(ReasonSecretDeleted))) =>
          InLog(Call("IsControlledBy", "true")))
  /\ [][ (DeletionPass /\ pc' # pc /\ secrets' # secrets) =>
           IsControlledBy(secrets[getSecretName(obj)], obj) ]_vars

\* ------------------------------------------- buildSecret on its own
\* Entries a user may put into spec.secretLabels and spec.secretAnnotations:
\* keys of their own and the keys the operator sets itself.
LabelChoices ==
  {<<"team", "a">>, <<"app.kubernetes.io/managed-by", "me">>,
   <<"secrets.gg.io/sopssecret", "elsewhere">>}
AnnotationChoices ==
  {<<"note", <<"n">>>>, <<"secrets.gg.io/source", <<"spoofed", "/", "source">>>>}
TypeChoices == {"", "kubernetes.io/tls"}

\* The SopsSecrets buildSecret is called with.
DeriveInputs ==
  {[NoCR EXCEPT !.exists = TRUE, !.uid = UidOf(1), !.generation = 1,
                !.finalizer = TRUE,
                !.payload = [data |-> "enc-1", sops |-> "ok"],
                !.secretName = sn, !.secretLabels = ls,
                !.secretAnnotations = as, !.secretType = ty] :
     sn \in SpecSecretNames, ls \in SUBSET LabelChoices,
     as \in SUBSET AnnotationChoices, ty \in TypeChoices}

InitDerive ==
  /\ InitStore
  /\ \E o \in DeriveInputs :
       call = [fn |-> "buildSecret", step |-> "in", in |-> o, out |-> NoSecret]

\* Reconcile, lines 201-208: the derived Secret of the SopsSecret.
BuildStep ==
  /\ call.fn = "buildSecret"
  /\ call.step = "in"
  /\ call' = [call EXCEPT !.step = "out",
                          !.out = buildSecret(call.in, SopsPlain(call.in.payload).data)]
  /\ UNCHANGED <<cr, secrets, queued, timer, pc, obj, secret, stale, secStale,
                 result, log, errs, oobs, lives, oob, hist>>

NextDerive == BuildStep

SpecDerive == InitDerive /\ [][NextDerive]_vars

\* The labels and the annotation the operator sets itself.
FixedLabels ==
  {<<"app.kubernetes.io/managed-by", "sops-operator">>,
   <<"secrets.gg.io/sopssecret", CRName>>}
FixedAnnotations == {<<"secrets.gg.io/source", <<Namespace, "/", CRName>>>>}

\* C18 (as stated): the derived Secret carries the operator's values under
\* the operator-managed label keys and annotation key, whatever the user
\* supplies; the user's labels and annotations are added for the other keys
\* only.
C18_FixedKeysReserved ==
  (call.fn = "buildSecret" /\ call.step = "out") =>
    /\ FixedLabels \subseteq call.out.labels
    /\ FixedAnnotations \subseteq call.out.annotations
    /\ call.out.labels =
         FixedLabels \cup {e \in call.in.secretLabels : e[1] \notin Keys(FixedLabels)}
    /\ call.out.annotations =
         FixedAnnotations \cup
           {e \in call.in.secretAnnotations : e[1] \notin Keys(FixedAnnotations)}

\* ------------------------------------ ValidateEncryptedYAML on its own
\* The value under the top-level key sops of a YAML document: no such key,
\* null, a scalar, a sequence, or a mapping, which has a mac (none, null, the
\* empty string, a MAC) and may have further entries.
SopsValues ==
  {[kind |-> k, mac |-> "absent", version |-> FALSE, lastmodified |-> FALSE] :
     k \in {"absent", "null", "scalar", "seq"}}
  \cup
  {[kind |-> "map", mac |-> m, version |-> v, lastmodified |-> l] :
     m \in {"absent", "null", "empty", "set"}, v \in BOOLEAN, l \in BOOLEAN}

NoSopsValue ==
  [kind |-> "absent", mac |-> "absent", version |-> FALSE, lastmodified |-> FALSE]

\* The inputs of the validator: no bytes, white space only, bytes that are not
\* YAML, a scalar or a sequence at the top level, a top-level mapping.
YAMLInputs ==
  {[form |-> f, sops |-> NoSopsValue, rest |-> "none"] :
     f \in {"empty", "blank", "invalid", "scalar", "seq"}}
  \cup
  {[form |-> "map", sops |-> sv, rest |-> r] :
     sv \in SopsValues, r \in {"none", "spec", "username"}}

\* yaml.Unmarshal(data, &raw) with raw a map[string]interface{}: white space
\* leaves raw nil without error, a scalar or a sequence cannot be unmarshalled
\* into a map.
Unmarshal(d) ==
  IF d.form \in {"invalid", "scalar", "seq"}
  THEN [err |-> TRUE, sops |-> NoSopsValue]
  ELSE IF d.form = "blank"
  THEN [err |-> FALSE, sops |-> NoSopsValue]
  ELSE [err |-> FALSE, sops |-> d.sops]

\* ValidateEncryptedYAML: the error it returns ("nil": the input is accepted).
ValidateEncryptedYAML(d) ==
  IF d.form = "empty" THEN "empty YAML data"
  ELSE IF Unmarshal(d).err THEN "invalid YAML"
  ELSE IF Unmarshal(d).sops.kind = "absent" THEN "missing sops metadata block"
  ELSE IF Unmarshal(d).sops.kind # "map" THEN "invalid sops metadata block"
  ELSE IF Unmarshal(d).sops.mac = "absent" THEN "missing MAC in sops metadata"
  ELSE "nil"

InitValidate ==
  /\ InitStore
  /\ \E d \in YAMLInputs :
       call = [fn |-> "ValidateEncryptedYAML", step |-> "in", in |-> d, out |-> ""]

ValidateStep ==
  /\ call.fn = "ValidateEncryptedYAML"
  /\ call.step = "in"
  /\ call' = [call EXCEPT !.step = "out", !.out = ValidateEncryptedYAML(call.in)]
  /\ UNCHANGED <<cr, secrets, queued, timer, pc, obj, secret, stale, secStale,
                 result, log, errs, oobs, lives, oob, hist>>

NextValidate == ValidateStep

SpecValidate == InitValidate /\ [][NextValidate]_vars

\* C19 (as stated): the validator accepts an input if and only if it is YAML
\* with a top-level mapping that has a key sops whose value is a mapping with
\* a non-empty mac.
C19_ValidatorAccepts ==
  (call.fn = "ValidateEncryptedYAML" /\ call.step = "out") =>
    ( call.out = "nil" <=>
        /\ call.in.form = "map"
        /\ call.in.sops.kind = "map"
        /\ call.in.sops.mac = "set" )

\* ------------------------------- the messages of the decrypt step
\* A message is the sequence of the pieces it is formatted from.
\* What a run of the decrypt step meets: the subprocess prints the decrypted
\* document (ok), exits non-zero, runs into the deadline, is cancelled,
\* prints a document that is a scalar (parse) or one without spec.data
\* (shape). plain is the decrypted text, stderr what the subprocess prints on
\* stderr.
RunKinds ==
  {"ok", "create", "write", "close", "exit", "timeout", "canceled",
   "empty", "syntax", "parse", "nospec", "nodata"}
Plaintexts == {"p@ss", "hunter2"}
StderrTexts == {"diagnostics-1", "diagnostics-2"}
Runs == [kind : RunKinds, plain : Plaintexts, stderr : StderrTexts]

\* DefaultDecryptTimeout as %v prints it.
DecryptTimeoutText == "30s"

\* The error of yaml.v3 for a scalar document decoded into a map: it quotes
\* the scalar.
YamlTypeError(doc) ==
  <<"yaml: unmarshal errors: line 1: cannot unmarshal !!str ", doc,
    " into map[string]interface {}">>

\* The error of yaml.v3 for a document that is not well formed: a fixed text
\* of the scanner or parser with the line number, nothing of the document.
YamlSyntaxError == "yaml: line 1: did not find expected ',' or ']'"

\* The *PathError of the os package for the temporary file: operation, path
\* and the error of the system call.
OsErrorText(op, errno) == <<op, " ", "/tmp/sops-*.yaml", ": ", errno>>

\* DecryptCRD: the text of the error of runSopsDecrypt (lines 143-158: the
\* temporary file; lines 181-189: the subprocess) or of parseCRDDecryptedYAML
\* (line 200: the output is empty, not well formed, or not a mapping; line
\* 206: no mapping under spec; line 211: no mapping under spec.data); <<>>
\* when there is none. The values under spec.data come from the YAML decoder,
\* and yaml.Marshal does not fail on such values, so convertToDecryptedData
\* has no error to give.
DecryptErrorText(run) ==
  CASE run.kind = "ok" -> <<>>
    [] run.kind = "timeout" -> <<"sops decrypt timed out after ", DecryptTimeoutText>>
    [] run.kind = "canceled" -> <<"sops decrypt was canceled">>
    [] run.kind = "exit" ->
         <<"sops decrypt failed: ", "exit status 1", ": ", run.stderr>>
    [] run.kind = "create" ->
         <<"failed to create temp file: ">> \o OsErrorText("open", "too many open files")
    [] run.kind = "write" ->
         <<"failed to write temp file: ">> \o OsErrorText("write", "no space left on device")
    [] run.kind = "close" ->
         <<"failed to close temp file: ">> \o OsErrorText("close", "input/output error")
    [] run.kind = "empty" -> <<"failed to parse decrypted YAML: ", "EOF">>
    [] run.kind = "syntax" -> <<"failed to parse decrypted YAML: ", YamlSyntaxError>>
    [] run.kind = "parse" ->
         <<"failed to parse decrypted YAML: ">> \o YamlTypeError(run.plain)
    [] run.kind = "nospec" -> <<"missing or invalid 'spec' field in decrypted YAML">>
    [] run.kind = "nodata" ->
         <<"missing or invalid 'spec.data' field in decrypted YAML">>

\* Reconcile, lines 185-199 and 217-251: the messages of the conditions, the
\* events and the log lines of a pass from its decrypt call on (the Secret
\* does not exist yet).
PassMessages(run) ==
  IF DecryptErrorText(run) # <<>>
  THEN [conditions |->
          {<<ConditionTypeDecrypted, DecryptErrorText(run)>>,
           <<ConditionTypeReady, <<"Failed to decrypt SOPS data">>>>},
        events |-> {<<ReasonDecryptFailed, DecryptErrorText(run)>>},
        logs |-> {<<"Failed to decrypt SopsSecret">> \o DecryptErrorText(run)}]
  ELSE [conditions |->
          {<<ConditionTypeDecrypted, <<"Successfully decrypted SOPS data">>>>,
           <<ConditionTypeReady, <<"Secret ", CRName, " is up to date">>>>},
        events |-> {<<ReasonDecrypted, <<"Successfully decrypted SOPS data">>>>,
                    <<ReasonSecretCreated, <<"Created Secret ", CRName>>>>},
        logs |-> {<<"Created Secret", "name", CRName>>}]

\* Two runs that differ in the decrypted text and in stderr only.
InitRedact ==
  /\ InitStore
  /\ \E r1 \in Runs, r2 \in Runs :
       /\ r1.kind = r2.kind
       /\ call = [fn |-> "DecryptMessages", step |-> "in", in |-> <<r1, r2>>,
                  out |-> <<>>]

MessagesStep ==
  /\ call.fn = "DecryptMessages"
  /\ call.step = "in"
  /\ call' = [call EXCEPT !.step = "out",
                          !.out = <<PassMessages(call.in[1]), PassMessages(call.in[2])>>]
  /\ UNCHANGED <<cr, secrets, queued, timer, pc, obj, secret, stale, secStale,
                 result, log, errs, oobs, lives, oob, hist>>

NextRedact == MessagesStep

SpecRedact == InitRedact /\ [][NextRedact]_vars

\* The pieces of all messages of a pass.
Pieces(msgs) ==
  UNION {Range(m[2]) : m \in msgs.conditions \cup msgs.events}
    \cup UNION {Range(l) : l \in msgs.logs}

\* C16 (as stated): two runs that differ only in the decrypted text and in
\* what the subprocess prints on stderr give the same event messages,
\* condition messages and log lines, and none of them holds the decrypted
\* text or the text of stderr.
C16_Redaction ==
  (call.fn = "DecryptMessages" /\ call.step = "out") =>
    /\ call.out[1] = call.out[2]
    /\ \A i \in {1, 2} :
         Pieces(call.out[i]) \cap {call.in[i].plain, call.in[i].stderr} = {}

\* ------------------------------------- a decrypt call and its contexts
\* The entry point the reconciler calls (Reconcile, line 186), and the one
\* that takes the caller's context.
ReconcilerEntry == "DecryptCRD"
DecryptEntries == {"DecryptCRD", "DecryptCRDWithContext"}

\* The context a decrypt call hands to runSopsDecrypt: DecryptCRD passes
\* context.Background(), DecryptCRDWithContext the context of its caller.
ParentContext(entry) == IF entry = "DecryptCRD" THEN "background" ELSE "caller"

\* A decrypt call: in.timeout is the driver's timeout in ticks, in.exit the
\* exit code of the subprocess left to itself; file is the temporary file of
\* the call and handle its open file, clock counts the ticks since the child
\* context was made, execErr is execCtx.Err(), proc the subprocess, cancelled
\* the caller's (the reconciliation's) context, and cancelSeen says that the
\* caller's context was cancelled while the subprocess ran and the child
\* context was still live.
InitCancel ==
  /\ InitStore
  /\ \E e \in DecryptEntries, t \in 1..MaxTimeout, x \in {0, 1} :
       call = [fn |-> e, step |-> "create", in |-> [timeout |-> t, exit |-> x],
               out |-> "", parent |-> ParentContext(e), clock |-> 0,
               execErr |-> "nil", proc |-> "running", cancelled |-> FALSE,
               cancelSeen |-> FALSE, file |-> "none", handle |-> "none"]

InDecryptCall == call.fn \in DecryptEntries /\ call.step = "running"

UnchangedStore ==
  UNCHANGED <<cr, secrets, queued, timer, pc, obj, secret, stale, secStale,
              result, log, errs, oobs, lives, oob, hist>>

\* Mutant: the deferred function closes the file and leaves it in place.
Cleanup_CloseOnly(c) == [c EXCEPT !.handle = "closed"]

\* runSopsDecrypt, lines 148-151: the deferred function closes the handle
\* (an error of a second Close is dropped) and removes the file.
Cleanup(c) == [c EXCEPT !.handle = "closed", !.file = "removed"]

\* runSopsDecrypt, lines 143-147: os.CreateTemp makes a file of a fresh name
\* and opens it, or fails and makes none.
CreateTemp ==
  /\ call.fn \in DecryptEntries
  /\ call.step = "create"
  /\ \/ call' = [call EXCEPT !.step = "write", !.file = "exists", !.handle = "open"]
     \/ call' = [call EXCEPT !.step = "returned", !.out = "create-failed"]
  /\ UnchangedStore

\* runSopsDecrypt, lines 153-155: the payload is written to the file.
WriteTemp ==
  /\ call.fn \in DecryptEntries
  /\ call.step = "write"
  /\ \/ call' = [call EXCEPT !.step = "close"]
     \/ call' = Cleanup([call EXCEPT !.step = "returned", !.out = "write-failed"])
  /\ UnchangedStore

\* runSopsDecrypt, lines 156-158: the file is closed before the subprocess
\* reads it; a Close that reports an error has released the handle too.
CloseTemp ==
  /\ call.fn \in DecryptEntries
  /\ call.step = "close"
  /\ \/ call' = [call EXCEPT !.step = "running", !.handle = "closed"]
     \/ call' = Cleanup([call EXCEPT !.step = "returned", !.handle = "closed",
                                      !.out = "close-failed"])
  /\ UnchangedStore

\* The reconciliation's context is cancelled; the child context follows only
\* if it was derived from it.
CancelCaller ==
  /\ InDecryptCall
  /\ ~call.cancelled
  /\ call' = [call EXCEPT
       !.cancelled = TRUE,
       !.cancelSeen = (call.proc = "running" /\ call.execErr = "nil"),
       !.execErr = IF call.parent = "caller" /\ call.execErr = "nil"
                   THEN "canceled" ELSE @]
  /\ UnchangedStore

\* Time passes; at the driver's timeout the child context ends with
\* DeadlineExceeded (context.WithTimeout, line 161).
Tick ==
  /\ InDecryptCall
  /\ call.clock < call.in.timeout
  /\ call' = [call EXCEPT
       !.clock = @ + 1,
       !.execErr = IF call.clock + 1 = call.in.timeout /\ call.execErr = "nil"
                   THEN "deadline" ELSE @]
  /\ UnchangedStore

\* exec.CommandContext: the subprocess is killed once the child context is
\* done.
KillProc ==
  /\ InDecryptCall
  /\ call.proc = "running"
  /\ call.execErr # "nil"
  /\ call' = [call EXCEPT !.proc = "killed"]
  /\ UnchangedStore

\* The subprocess ends by itself.
ProcExit ==
  /\ InDecryptCall
  /\ call.proc = "running"
  /\ call' = [call EXCEPT !.proc = "exited"]
  /\ UnchangedStore

\* runSopsDecrypt, lines 181-191: cmd.Run has returned; its error is
\* classified by the state of the child context, and the deferred function
\* runs.
RunReturns ==
  /\ InDecryptCall
  /\ call.proc # "running"
  /\ call' = Cleanup([call EXCEPT
       !.step = "returned",
       !.out = IF call.proc = "exited" /\ call.in.exit = 0 THEN "ok"
               ELSE IF call.execErr = "deadline" THEN "timeout"
               ELSE IF call.execErr = "canceled" THEN "canceled"
               ELSE "failed"])
  /\ UnchangedStore

NextCancel ==
  \/ CreateTemp \/ WriteTemp \/ CloseTemp
  \/ CancelCaller \/ Tick \/ KillProc \/ ProcExit \/ RunReturns

SpecCancel == InitCancel /\ [][NextCancel]_vars

\* C20 (as stated): the reconciler's decrypt call runs under the
\* reconciliation's context: when that context is cancelled while the
\* subprocess runs, the child context ends as cancelled, and a subprocess
\* that is then killed is reported as canceled, not as timeout.
C20_CancellationPropagates ==
  (call.fn = ReconcilerEntry /\ call.step \in {"running", "returned"}) =>
    /\ call.cancelSeen => call.execErr = "canceled"
    /\ (call.step = "returned" /\ call.cancelSeen /\ call.proc = "killed") =>
         call.out = "canceled"

\* C21: once a decrypt call has returned, on whatever path (the temporary
\* file could not be written or closed, the subprocess succeeded, exited
\* non-zero, ran into the deadline or was cancelled), the temporary file the
\* call created is gone and its handle is closed; a call that could not
\* create the file has left none.
C21_TempFileHygiene ==
  (call.fn \in DecryptEntries /\ call.step = "returned") =>
    /\ call.file \in {"none", "removed"}
    /\ call.handle \in {"none", "closed"}
    /\ call.out = "create-failed" <=> call.file = "none"
    /\ call.out # "create-failed" => (call.file = "removed" /\ call.handle = "closed")

\* The subprocess ran into the deadline and was killed.
C21_Witness ==
  /\ call.fn \in DecryptEntries /\ call.step = "returned"
  /\ call.out = "timeout" /\ call.proc = "killed"
  /\ call.file = "removed" /\ call.handle = "closed"

\* ------------------------------- the reconciler and its scheme
\* The reconciler is built with a scheme that knows the types, or (as in the
\* test of the SetControllerReference error) with an empty one.
InitScheme ==
  /\ InitStore
  /\ \E sch \in {"registered", "empty"} :
       call = [fn |-> "Reconcile", step |-> "", in |-> sch, out |-> <<>>]

SpecScheme == InitScheme /\ [][Next]_vars

OwnerRefFailed == InLog(Call("SetControllerReference", "error"))

\* C22: the derived Secret carries the controller reference of its
\* SopsSecret before the lookup and the write of the apply step, and every
\* Secret the pass has created carries it; when SetControllerReference fails
\* (the scheme does not know the types) the pass ends there with that error
\* and an empty result: no Secret call, no status write, nothing stored
\* changes.
C22_OwnerRefBeforeWrite ==
  /\ [](pc \in {"apply_get", "apply_create", "apply_update"} =>
          /\ SchemeHasTypes
          /\ secret.owner = obj.uid)
  /\ []((pc # "idle" /\ InLog(Call("CreateSecret", "ok"))) =>
          secret.owner = obj.uid)
  /\ [][ (pc = "apply_create" /\ pc' = "status_update") =>
           IsControlledBy(secrets'[secret.name], obj) ]_vars
  /\ [](OwnerRefFailed =>
          /\ pc = "done"
          /\ result = ErrResult("error")
          /\ LastCall = Call("SetControllerReference", "error")
          /\ SecretWrites = {}
          /\ \A i \in 1..Len(log) : log[i].op \notin {"UpdateStatus", "UpdateCR"})
  /\ [][ (pc = "decrypt" /\ OwnerRefFailed') =>
           UNCHANGED <<cr, secrets, timer>> ]_vars
  /\ [][ (pc = "decrypt" /\ pc' # pc /\ ~SchemeHasTypes /\ errs' = errs
          /\ SopsPlain(obj.payload).ok) => OwnerRefFailed' ]_vars

\* A pass of a reconciler with an empty scheme has decrypted the payload and
\* returned the error of SetControllerReference; no Secret exists.
C22_Witness ==
  /\ ~SchemeHasTypes
  /\ pc = "done"
  /\ OwnerRefFailed
  /\ InLog(Call("Decrypt", "ok"))
  /\ result = ErrResult("error")
  /\ ~secrets[getSecretName(obj)].present
  /\ cr.status = EmptyStatus

\* The derived state of the Secret of a SopsSecret.
Derived(o) == buildSecret(o, SopsPlain(o.payload).data)

\* The stored Secret has the derived data, labels, annotations and type.
SecretAsDerived ==
  /\ DerivedSecret.present
  /\ DerivedSecret.data = Derived(cr).data
  /\ DerivedSecret.labels = Derived(cr).labels
  /\ DerivedSecret.annotations = Derived(cr).annotations
  /\ DerivedSecret.type = Derived(cr).type

\* C23 (as stated): when the Secret a Ready, unchanged, non-suspended
\* SopsSecret controls exists with contents other than the derived ones,
\* eventually its contents are the derived ones again (or the user has
\* changed, suspended or deleted the SopsSecret in the meantime).
C23_DriftDetection ==
  (Settled /\ Ready(cr) /\ IsControlledBy(DerivedSecret, cr) /\ ~SecretAsDerived)
    ~> (~Settled \/ SecretAsDerived)

\* ------------------------------------- passes that keep being scheduled
\* The key of an existing SopsSecret is put into the queue again: an event of
\* the watches of SetupWithManager that changes nothing (a resync).
Schedule ==
  /\ cr.exists
  /\ ~queued
  /\ queued' = TRUE
  /\ UNCHANGED <<cr, secrets, timer, pc, obj, secret, stale, secStale, result, log,
                 errs, oobs, lives, oob, hist, call>>

NextScheduled == Next \/ Schedule

\* Passes keep being scheduled and run to their end; the failures of the API
\* and of the subprocess stop (errs is used up or left unused), and so do the
\* changes by the user and by other clients.
SpecScheduled ==
  /\ Init /\ [][NextScheduled]_vars
  /\ WF_vars(Pass) /\ WF_vars(TimerFire) /\ WF_vars(Schedule)

\* The SopsSecret has a valid, decryptable payload, is not suspended and not
\* being deleted.
Reconcilable ==
  /\ cr.exists /\ ~cr.deleting /\ ~cr.suspend
  /\ SopsPlain(cr.payload).ok

Converged ==
  /\ CondStatus(cr, ConditionTypeReady) = "True"
  /\ CondStatus(cr, ConditionTypeDecrypted) = "True"
  /\ SecretAsDerived

\* C24 (as stated): from any reachable state in which the SopsSecret has a
\* valid, decryptable payload and is neither suspended nor being deleted,
\* with passes scheduled again and again, eventually Ready=True and
\* Decrypted=True are persisted and the Secret has the derived contents (or
\* the user has changed the SopsSecret so that this no longer applies).
C24_Convergence ==
  Reconcilable ~> (~Reconcilable \/ Converged)

ConditionTypes == {ConditionTypeReady, ConditionTypeDecrypted}

OnePerType(conds) ==
  /\ \A i \in 1..Len(conds) : conds[i].type \in ConditionTypes
  /\ \A t \in ConditionTypes : Cardinality(FindCondition(conds, t)) <= 1

\* C25: the conditions of the stored SopsSecret and of the copy a pass works
\* on hold at most one entry per condition type (Ready, Decrypted), and a
\* step of a pass that sets conditions on a list that has both types leaves
\* the list as long as it was.
C25_OneConditionPerType ==
  /\ [](OnePerType(cr.status.conditions) /\ OnePerType(obj.status.conditions))
  /\ [][ (pc \in {"decrypt", "skip_get", "apply_create", "apply_update"}
          /\ Len(obj.status.conditions) = 2) =>
           Len(obj'.status.conditions) = 2 ]_vars

\* The stored SopsSecret has Ready=True and Decrypted=True from an earlier
\* pass; a later pass has replaced both in its copy after a decrypt failure.
C25_Witness ==
  /\ pc = "status_update"
  /\ InLog(Event(ReasonDecryptFailed))
  /\ Len(cr.status.conditions) = 2 /\ SuccessStatus(cr)
  /\ Len(obj.status.conditions) = 2 /\ FailureStatus(obj, "DecryptFailed")

\* ------------------------------------ the name the three branches use
\* A Secret of another client.
ForeignSecret(n) ==
  [present |-> TRUE, name |-> n, namespace |-> Namespace, data |-> TamperedData,
   owner |-> NoOwner, creator |-> NoOwner, labels |-> ForeignLabels,
   annotations |-> ForeignAnnotations, type |-> ForeignType]

\* The user has applied a SopsSecret with a decryptable payload, with or
\* without spec.secretName and spec.secretType; Secrets of other clients may
\* be there already. From here the passes run, and the user may delete the
\* SopsSecret.
InitNames ==
  /\ \E sn \in SpecSecretNames, ty \in TypeChoices :
       cr = [NoCR EXCEPT !.exists = TRUE, !.uid = UidOf(1), !.generation = 1,
                         !.payload = [data |-> "enc-1", sops |-> "ok"],
                         !.secretName = sn, !.secretType = ty,
                         !.secretLabels = UserLabels,
                         !.secretAnnotations = UserAnnotations]
  /\ \E pre \in SUBSET SecretNames :
       /\ secrets = [n \in SecretNames |->
                       IF n \in pre THEN ForeignSecret(n) ELSE NoSecret]
       /\ oob = pre
  /\ queued = TRUE
  /\ timer = FALSE
  /\ pc = "idle"
  /\ obj = NoCR
  /\ secret = NoSecret
  /\ stale = FALSE
  /\ secStale = FALSE
  /\ result = EmptyResult
  /\ log = <<>>
  /\ errs = MaxErrs
  /\ oobs = 0
  /\ lives = 1
  /\ hist = "x"
  /\ call = NoCall

NextNames == Pass \/ TimerFire \/ UserDelete

SpecNames == InitNames /\ [][NextNames]_vars

\* Name and type of the derived Secret as the SopsSecret's spec gives them.
NameBySpec(o) == IF o.secretName = "" THEN CRName ELSE o.secretName
TypeBySpec(o) == IF o.secretType = "" THEN "Opaque" ELSE o.secretType

\* C26: the derived Secret of a pass has the name spec.secretName when that
\* is non-empty and the SopsSecret's name otherwise, the SopsSecret's
\* namespace, and the type spec.secretType when that is non-empty and Opaque
\* otherwise; the lookup of the digest skip, the lookup and the write of the
\* apply step and the lookup and the delete of the deletion branch are all
\* for the Secret of that name, and no step of a pass changes a Secret of
\* another name.
C26_DerivedNameAndType ==
  /\ [](pc \in {"apply_get", "apply_create", "apply_update"} =>
          /\ secret.name = NameBySpec(obj)
          /\ secret.namespace = Namespace
          /\ secret.type = TypeBySpec(obj))
  /\ [][ \A n \in SecretNames :
           secrets'[n] # secrets[n] =>
             /\ n = NameBySpec(obj)
             /\ pc \in {"apply_create", "apply_update", "del_delete"}
             /\ pc # "del_delete" =>
                  /\ secrets'[n].name = n
                  /\ secrets'[n].namespace = Namespace
                  /\ secrets'[n].type = TypeBySpec(obj) ]_vars
  /\ [][ (pc = "skip_get" /\ pc' # pc /\ errs' = errs) =>
           (pc' = "done" <=> secrets[NameBySpec(obj)].present) ]_vars
  /\ [][ (pc = "apply_get" /\ pc' # pc /\ errs' = errs) =>
           (pc' = "apply_update" <=> secrets[NameBySpec(obj)].present) ]_vars
  /\ [][ (pc = "del_get" /\ pc' # pc /\ errs' = errs) =>
           (pc' = "del_delete" <=> IsControlledBy(secrets[NameBySpec(obj)], obj)) ]_vars

\* A SopsSecret with spec.secretName and spec.secretType set has been
\* deleted: its pass has deleted the Secret of that name, which had that
\* type, and the Secret of another client under the SopsSecret's own name is
\* as it was.
C26_Witness ==
  /\ pc = "done"
  /\ obj.deleting /\ obj.secretName = CustomName /\ obj.secretType = "kubernetes.io/tls"
  /\ InLog(Call("DeleteSecret", "ok"))
  /\ ~secrets[CustomName].present
  /\ secrets[CRName] = ForeignSecret(CRName)

\* ------------------------------------- NewDecryptorFromEnv on its own
\* A text is a sequence of pieces: a blank, the comment sign, the line feed,
\* and two pieces of key material.
KeyPieces == {" ", "#", "LF", "AGE-SECRET-KEY-1", "AGE-SECRET-KEY-2"}

RECURSIVE Texts(_)
Texts(n) ==
  IF n = 0 THEN {<<>>}
  ELSE Texts(n - 1) \cup {Append(t, p) : t \in {u \in Texts(n - 1) : Len(u) = n - 1},
                                        p \in KeyPieces}

KeyFilePath == "/etc/sops/keys.txt"

\* The environment of the process: SOPS_AGE_KEY, SOPS_AGE_KEY_FILE (both ""
\* when unset) and the file at that path, which can be read or not.
KeyEnvs ==
  {[key |-> k, keyFile |-> "", readable |-> FALSE, data |-> <<>>] :
     k \in Texts(MaxKeyLen)}
  \cup
  {[key |-> k, keyFile |-> KeyFilePath, readable |-> FALSE, data |-> <<>>] :
     k \in Texts(MaxKeyLen)}
  \cup
  {[key |-> k, keyFile |-> KeyFilePath, readable |-> TRUE, data |-> d] :
     k \in Texts(MaxKeyLen), d \in Texts(MaxKeyLen)}

\* strings.Split(s, "\n"): the pieces between the line feeds, in order.
RECURSIVE Split(_)
Split(t) ==
  IF \A i \in 1..Len(t) : t[i] # "LF" THEN <<t>>
  ELSE LET i == CHOOSE j \in 1..Len(t) :
                  t[j] = "LF" /\ \A k \in 1..(j - 1) : t[k] # "LF"
       IN <<SubSeq(t, 1, i - 1)>> \o Split(SubSeq(t, i + 1, Len(t)))

\* strings.TrimSpace: leading and trailing white space is cut off.
RECURSIVE TrimSpace(_)
TrimSpace(t) ==
  IF t # <<>> /\ t[1] = " " THEN TrimSpace(Tail(t))
  ELSE IF t # <<>> /\ t[Len(t)] = " " THEN TrimSpace(SubSeq(t, 1, Len(t) - 1))
  ELSE t

HasPrefix(t, p) == t # <<>> /\ t[1] = p

\* The filter loop of NewDecryptorFromEnv: the trimmed keys that are neither
\* empty nor comments, in order.
RECURSIVE ValidKeys(_)
ValidKeys(keys) ==
  IF keys = <<>> THEN <<>>
  ELSE LET k == TrimSpace(Head(keys)) IN
       IF k # <<>> /\ ~HasPrefix(k, "#")
       THEN <<k>> \o ValidKeys(Tail(keys))
       ELSE ValidKeys(Tail(keys))

NoDecryptor == [err |-> "nil", ageKeys |-> <<>>, ageKeyFile |-> ""]

\* Mutant: a key file that cannot be read is passed over.
NewDecryptorFromEnv_SkipUnreadable(env) ==
  LET inline == IF env.key # <<>> THEN Split(env.key) ELSE <<>>
      keys == IF env.keyFile # "" /\ env.readable
              THEN inline \o Split(env.data) ELSE inline
  IN IF ValidKeys(keys) = <<>>
     THEN [NoDecryptor EXCEPT !.err = "no AGE keys found"]
     ELSE [err |-> "nil", ageKeys |-> ValidKeys(keys), ageKeyFile |-> env.keyFile]

\* NewDecryptorFromEnv: the Decryptor it makes, or the error.
NewDecryptorFromEnv(env) ==
  LET inline == IF env.key # <<>> THEN Split(env.key) ELSE <<>>
      keys == IF env.keyFile # "" THEN inline \o Split(env.data) ELSE inline
  IN IF env.keyFile # "" /\ ~env.readable
     THEN [NoDecryptor EXCEPT !.err = "failed to read AGE key file"]
     ELSE IF ValidKeys(keys) = <<>>
     THEN [NoDecryptor EXCEPT !.err = "no AGE keys found"]
     ELSE [err |-> "nil", ageKeys |-> ValidKeys(keys), ageKeyFile |-> env.keyFile]

InitKeys ==
  /\ InitStore
  /\ \E env \in KeyEnvs :
       call = [fn |-> "NewDecryptorFromEnv", step |-> "in", in |-> env,
               out |-> NoDecryptor]

LoadKeysStep ==
  /\ call.fn = "NewDecryptorFromEnv"
  /\ call.step = "in"
  /\ call' = [call EXCEPT !.step = "out", !.out = NewDecryptorFromEnv(call.in)]
  /\ UnchangedStore

NextKeys == LoadKeysStep

SpecKeys == InitKeys /\ [][NextKeys]_vars

\* The lines of a text: the stretches between line feeds, each given by its
\* first and last position (first = last + 1 for an empty line).
LineBounds(t) ==
  {b \in (1..(Len(t) + 1)) \X (0..Len(t)) :
     /\ b[1] <= b[2] + 1
     /\ \A i \in b[1]..b[2] : t[i] # "LF"
     /\ (b[1] = 1 \/ t[b[1] - 1] = "LF")
     /\ (b[2] = Len(t) \/ t[b[2] + 1] = "LF")}

\* The line without its leading and trailing blanks.
Trimmed(t, b) ==
  LET inner == {i \in b[1]..b[2] : t[i] # " "} IN
  IF inner = {} THEN <<>>
  ELSE SubSeq(t, CHOOSE i \in inner : \A j \in inner : i <= j,
                 CHOOSE i \in inner : \A j \in inner : i >= j)

\* The usable lines of a text, in order: trimmed, not empty, not a comment.
RECURSIVE InOrder(_, _)
InOrder(t, bs) ==
  IF bs = {} THEN <<>>
  ELSE LET b == CHOOSE x \in bs : \A y \in bs : x[1] <= y[1]
           l == Trimmed(t, b)
       IN (IF l = <<>> \/ l[1] = "#" THEN <<>> ELSE <<l>>) \o InOrder(t, bs \ {b})

UsableLines(t) == InOrder(t, LineBounds(t))

\* C27: construction from the environment fails when a key-file path is set
\* and the file cannot be read, whatever the inline value holds; otherwise it
\* fails when the usable lines (trimmed, not empty, not starting with the
\* comment sign) of the inline value followed by those of the key file are
\* none, and else yields exactly these lines in that order.
C27_KeyLoader ==
  (call.fn = "NewDecryptorFromEnv" /\ call.step = "out") =>
    LET env == call.in
        expected == UsableLines(env.key) \o
                      (IF env.keyFile # "" THEN UsableLines(env.data) ELSE <<>>)
    IN IF env.keyFile # "" /\ ~env.readable
       THEN call.out.err = "failed to read AGE key file" /\ call.out.ageKeys = <<>>
       ELSE IF expected = <<>>
       THEN call.out.err = "no AGE keys found" /\ call.out.ageKeys = <<>>
       ELSE call.out.err = "nil" /\ call.out.ageKeys = expected

\* The inline value holds a usable key and the key file cannot be read.
C27_Witness ==
  /\ call.fn = "NewDecryptorFromEnv" /\ call.step = "out"
  /\ call.in.key = <<" ", "AGE-SECRET-KEY-1", " ">>
  /\ call.in.keyFile # "" /\ ~call.in.readable
  /\ call.out.err = "failed to read AGE key file"

NotFoundPass == log # <<>> /\ log[1] = Call("GetCR", "notfound")

\* C28: a pass whose lookup of the SopsSecret returns not-found ends there
\* with an empty result and no error: the lookup is its only call, it emits
\* no event, writes nothing, and the queue is given nothing to do again.
C28_FetchNotFound ==
  /\ [](NotFoundPass =>
          /\ pc = "done"
          /\ log = <<Call("GetCR", "notfound")>>
          /\ result = EmptyResult)
  /\ [][ (pc = "idle" /\ pc' # "idle" /\ ~cr.exists /\ errs' = errs) =>
           /\ NotFoundPass'
           /\ UNCHANGED <<cr, secrets, timer>> ]_vars
  /\ [][ (NotFoundPass /\ pc = "done" /\ pc' = "idle") =>
           UNCHANGED <<cr, secrets, queued, timer>> ]_vars

\* The pass that follows the removal of a deleted SopsSecret.
C28_Witness ==
  /\ NotFoundPass
  /\ pc = "done"
  /\ result = EmptyResult
  /\ ~cr.exists /\ cr.uid # ""

\* The decrypt call has run the subprocess and returned.
RanAndReturned ==
  /\ call.fn \in DecryptEntries /\ call.step = "returned"
  /\ call.out \notin {"create-failed", "write-failed", "close-failed"}

\* C29 (as stated): what a decrypt call reports is determined by what ended
\* its subprocess: killed at the deadline it reports timeout, killed on the
\* cancellation of the caller's context it reports canceled, and a subprocess
\* that exited non-zero by itself is reported as failed, whatever the order
\* of exit, deadline and cancellation.
C29_ErrorClassification ==
  RanAndReturned =>
    /\ (call.proc = "killed" /\ call.execErr = "deadline") => call.out = "timeout"
    /\ (call.proc = "killed" /\ call.execErr = "canceled") => call.out = "canceled"
    /\ (call.proc = "exited" /\ call.in.exit # 0) => call.out = "failed"

\* ------------------------------- what a pass records of a decrypt call
\* Reconcile, lines 186-199 and 342-349: the conditions and the event a pass
\* sets after its decrypt call, and for a failure the result of the pass once
\* the status is written (statusOk: the write succeeds); after a successful
\* decrypt the pass goes on (no result yet).
DecryptRecord(run, statusOk) ==
  IF DecryptErrorText(run) # <<>>
  THEN [decrypted |-> [status |-> "False", reason |-> "DecryptFailed",
                       message |-> DecryptErrorText(run)],
        ready |-> [status |-> "False", reason |-> "DecryptFailed",
                   message |-> <<"Failed to decrypt SOPS data">>],
        event |-> [reason |-> ReasonDecryptFailed, message |-> DecryptErrorText(run)],
        returns |-> TRUE,
        result |-> IF statusOk
                   THEN [requeue |-> FALSE, requeueAfter |-> RequeueAfterSeconds,
                         err |-> "nil"]
                   ELSE ErrResult("error")]
  ELSE [decrypted |-> [status |-> "True", reason |-> "Success",
                       message |-> <<"Successfully decrypted SOPS data">>],
        ready |-> [status |-> "absent", reason |-> "", message |-> <<>>],
        event |-> [reason |-> ReasonDecrypted,
                   message |-> <<"Successfully decrypted SOPS data">>],
        returns |-> FALSE,
        result |-> EmptyResult]

\* Two passes, each with its own decrypt call.
InitRecord ==
  /\ InitStore
  /\ \E r1 \in Runs, r2 \in Runs, ok \in BOOLEAN :
       call = [fn |-> "DecryptRecord", step |-> "in",
               in |-> [runs |-> <<r1, r2>>, statusOk |-> ok], out |-> <<>>]

RecordStep ==
  /\ call.fn = "DecryptRecord"
  /\ call.step = "in"
  /\ call' = [call EXCEPT
       !.step = "out",
       !.out = <<DecryptRecord(call.in.runs[1], call.in.statusOk),
                 DecryptRecord(call.in.runs[2], call.in.statusOk)>>]
  /\ UnchangedStore

NextRecord == RecordStep

SpecRecord == InitRecord /\ [][NextRecord]_vars

\* The failure kinds of a decrypt call the claim names: the subprocess ran
\* into the deadline, was cancelled, exited non-zero; its output could not be
\* parsed; the parsed document has not the expected shape.
FailureKinds ==
  {"timeout", "canceled", "exit", "empty", "syntax", "parse", "nospec", "nodata"}

\* The kind of failure a run counts as: parse-failed covers the three errors
\* of the decoder, unexpected-shape the two of the lookup of spec.data.
FailureClass(kind) ==
  CASE kind \in {"empty", "syntax", "parse"} -> "parse-failed"
    [] kind \in {"nospec", "nodata"} -> "unexpected-shape"
    [] kind = "exit" -> "subprocess-failed"
    [] OTHER -> kind

\* C30 (as stated): a decrypt failure of each kind is recorded with
\* Decrypted=False and Ready=False and a Warning event, the condition reason
\* and the event reason of one kind differ from those of every other kind,
\* and with the status written the pass returns RequeueAfter = 5 minutes.
C30_DistinctFailureReasons ==
  (call.fn = "DecryptRecord" /\ call.step = "out") =>
    /\ \A i \in {1, 2} :
         call.in.runs[i].kind \in FailureKinds =>
           /\ call.out[i].decrypted.status = "False"
           /\ call.out[i].ready.status = "False"
           /\ call.out[i].returns
           /\ call.in.statusOk => call.out[i].result = PeriodicRequeue
    /\ ( /\ call.in.runs[1].kind \in FailureKinds
         /\ call.in.runs[2].kind \in FailureKinds
         /\ FailureClass(call.in.runs[1].kind) # FailureClass(call.in.runs[2].kind) ) =>
         /\ call.out[1].decrypted.reason # call.out[2].decrypted.reason
         /\ call.out[1].event.reason # call.out[2].event.reason

\* ------------------------------------------------ duplicates in the key list
NoDuplicates(q) == \A i, j \in 1..Len(q) : q[i] = q[j] => i = j

\* C32: the key list the loader produces holds no key twice, also when the
\* same key stands in the inline value and in the key file, or twice in one
\* of them.
C32_KeyLoaderDeduplicates ==
  (call.fn = "NewDecryptorFromEnv" /\ call.step = "out" /\ call.out.err = "nil") =>
    NoDuplicates(call.out.ageKeys)

\* ------------------------------ decrypt calls that run side by side
\* Two goroutines call runSopsDecrypt on one Decryptor. The temporary
\* directory holds at most the files of TempNames; a file records the call
\* that created it and its content.
MaxCalls == 2
TempNames == {"sops-1.yaml", "sops-2.yaml"}
NoFile == [by |-> 0, data |-> "none"]
Drivers ==
  {[ageKeys |-> k, ageKeyFile |-> f, timeout |-> t] :
     k \in {<<"AGE-SECRET-KEY-1">>, <<"AGE-SECRET-KEY-1", "AGE-SECRET-KEY-2">>},
     f \in {"", KeyFilePath}, t \in 1..MaxTimeout}
NoEnv == [SOPS_AGE_KEY |-> <<>>, SOPS_AGE_KEY_FILE |-> ""]

\* A call: its payload, the step it is at, the path and the handle of its
\* temporary file, the environment and the input its subprocess got, and
\* what it returned.
NewCall(p) ==
  [payload |-> p, step |-> "create", path |-> "", handle |-> "none",
   env |-> NoEnv, read |-> "none", out |-> ""]

InitConcurrent ==
  /\ InitStore
  /\ \E d \in Drivers, ps \in [1..MaxCalls -> {"enc-1", "enc-2"}] :
       call = [fn |-> "runSopsDecrypt", step |-> "", in |-> d, out |-> <<>>,
               driver |-> d, dir |-> [n \in TempNames |-> NoFile],
               calls |-> [i \in 1..MaxCalls |-> NewCall(ps[i])]]

\* The deferred function of call i: the handle is closed and the file at the
\* call's path is removed.
CleanupIn(c, i) ==
  [c EXCEPT !.calls[i].handle = "closed", !.calls[i].step = "returned",
            !.dir[c.calls[i].path] = NoFile]

\* Mutant: every call creates (and truncates) the file of one fixed name.
CreateTempIn_FixedName(i) ==
  /\ call.fn = "runSopsDecrypt"
  /\ call.calls[i].step = "create"
  /\ LET n == "sops-1.yaml" IN
       call' = [call EXCEPT !.dir[n] = [by |-> i, data |-> ""],
                            !.calls[i].path = n, !.calls[i].handle = "open",
                            !.calls[i].step = "write"]
  /\ UnchangedStore

\* runSopsDecrypt, lines 143-147: os.CreateTemp opens a new file exclusively
\* under a name no file of the directory has, or fails.
CreateTempIn(i) ==
  /\ call.fn = "runSopsDecrypt"
  /\ call.calls[i].step = "create"
  /\ \/ \E n \in TempNames :
          /\ call.dir[n] = NoFile
          /\ call' = [call EXCEPT !.dir[n] = [by |-> i, data |-> ""],
                                  !.calls[i].path = n, !.calls[i].handle = "open",
                                  !.calls[i].step = "write"]
     \/ call' = [call EXCEPT !.calls[i].step = "returned",
                             !.calls[i].out = "create-failed"]
  /\ UnchangedStore

\* Lines 153-155: the call writes its payload through its handle.
WriteIn(i) ==
  /\ call.fn = "runSopsDecrypt"
  /\ call.calls[i].step = "write"
  /\ \/ call' = [call EXCEPT !.dir[call.calls[i].path].data = call.calls[i].payload,
                             !.calls[i].step = "close"]
     \/ call' = CleanupIn([call EXCEPT !.calls[i].out = "write-failed"], i)
  /\ UnchangedStore

\* Lines 156-158: the call closes its handle.
CloseIn(i) ==
  /\ call.fn = "runSopsDecrypt"
  /\ call.calls[i].step = "close"
  /\ \/ call' = [call EXCEPT !.calls[i].handle = "closed", !.calls[i].step = "run"]
     \/ call' = CleanupIn([call EXCEPT !.calls[i].out = "close-failed"], i)
  /\ UnchangedStore

\* Lines 165-181: the environment of the subprocess is a fresh copy of the
\* process environment extended by the driver's keys and key file; the
\* subprocess reads the file at the call's path.
RunSopsIn(i) ==
  /\ call.fn = "runSopsDecrypt"
  /\ call.calls[i].step = "run"
  /\ call' = [call EXCEPT
       !.calls[i].env = [SOPS_AGE_KEY |-> call.driver.ageKeys,
                         SOPS_AGE_KEY_FILE |-> call.driver.ageKeyFile],
       !.calls[i].read = call.dir[call.calls[i].path].data,
       !.calls[i].step = "ran"]
  /\ UnchangedStore

\* The four returns after cmd.Run: the deadline passed (line 183), the
\* caller's context was cancelled (line 186), the subprocess failed (line
\* 188), or the output is returned (line 191).
RunOuts == {"timeout", "canceled", "failed", "ok"}

\* Lines 181-191: cmd.Run has returned (with or without an error), the call
\* returns and its deferred function runs.
ReturnIn(i) ==
  /\ call.fn = "runSopsDecrypt"
  /\ call.calls[i].step = "ran"
  /\ \E o \in RunOuts :
       call' = CleanupIn([call EXCEPT !.calls[i].out = o], i)
  /\ UnchangedStore

NextConcurrent ==
  \E i \in 1..MaxCalls :
    \/ CreateTempIn(i) \/ WriteIn(i) \/ CloseIn(i) \/ RunSopsIn(i) \/ ReturnIn(i)

SpecConcurrent == InitConcurrent /\ [][NextConcurrent]_vars

HoldsFile(i) == call.calls[i].step \in {"write", "close", "run", "ran"}

\* C31: decrypt calls that run side by side on one driver are independent:
\* two calls that hold a temporary file hold files of different names; while
\* a call holds its file, the file at its path is the one it created and,
\* once written, has the call's payload (no other call has overwritten or
\* removed it); the subprocess of a call reads the call's payload and gets
\* the driver's keys; and the driver's keys, key file and timeout stay as
\* they were.
C31_IndependentCalls ==
  call.fn = "runSopsDecrypt" =>
    /\ call.driver = call.in
    /\ \A i \in 1..MaxCalls :
         /\ HoldsFile(i) =>
              /\ call.dir[call.calls[i].path].by = i
              /\ call.dir[call.calls[i].path].data =
                   (IF call.calls[i].step = "write" THEN "" ELSE call.calls[i].payload)
              /\ \A j \in (1..MaxCalls) \ {i} :
                   HoldsFile(j) => call.calls[j].path # call.calls[i].path
         /\ call.calls[i].step = "ran" \/ call.calls[i].out \in RunOuts =>
              /\ call.calls[i].read = call.calls[i].payload
              /\ call.calls[i].env.SOPS_AGE_KEY = call.in.ageKeys
              /\ call.calls[i].env.SOPS_AGE_KEY_FILE = call.in.ageKeyFile

\* Both calls hold a file at once, with different payloads, and the
\* subprocess of the first has read its input while the second call's file
\* is written.
C31_Witness ==
  /\ call.fn = "runSopsDecrypt"
  /\ call.calls[1].payload # call.calls[2].payload
  /\ call.calls[1].step = "ran" /\ call.calls[2].step = "close"
  /\ call.calls[1].path # call.calls[2].path
  /\ call.calls[1].read = call.calls[1].payload

\* ------------------- a SopsSecret in termination without the finalizer
\* The Secret the operator made for o in an earlier pass.
OwnSecret(o) == buildSecret(o, SopsPlain(o.payload).data)

\* The SopsSecret has a deletion timestamp and does not carry the operator's
\* finalizer (it was taken off by hand, or never added); the finalizer of
\* somebody else keeps the object stored. Secrets of the operator and of
\* other clients may be there. Passes are scheduled and other clients act.
InitHeld ==
  /\ \E p \in Payloads, sn \in SpecSecretNames, su \in BOOLEAN :
       cr = [NoCR EXCEPT !.exists = TRUE, !.uid = UidOf(1), !.generation = 1,
                         !.deleting = TRUE, !.finalizer = FALSE,
                         !.payload = p, !.secretName = sn, !.suspend = su,
                         !.secretLabels = UserLabels,
                         !.secretAnnotations = UserAnnotations,
                         !.secretType = UserType]
  /\ \E pre \in SUBSET SecretNames, own \in BOOLEAN :
       /\ secrets = [n \in SecretNames |->
                       IF own /\ n = getSecretName(cr) /\ SopsPlain(cr.payload).ok
                       THEN OwnSecret(cr)
                       ELSE IF n \in pre THEN ForeignSecret(n) ELSE NoSecret]
       /\ oob = {n \in pre : ~secrets[n].present \/ secrets[n].owner = NoOwner}
  /\ queued = TRUE
  /\ timer = FALSE
  /\ pc = "idle"
  /\ obj = NoCR
  /\ secret = NoSecret
  /\ stale = FALSE
  /\ secStale = FALSE
  /\ result = EmptyResult
  /\ log = <<>>
  /\ errs = MaxErrs
  /\ oobs = MaxOob
  /\ lives = 1
  /\ hist = "x"
  /\ call = NoCall

NextHeld == Fetch \/ Return \/ Schedule \/ OobCreate \/ OobEdit \/ OobDelete

SpecHeld == InitHeld /\ [][NextHeld]_vars

\* C33: a pass that fetches a SopsSecret with a deletion timestamp and
\* without the operator's finalizer ends at once: it makes no call but the
\* fetch (no Secret lookup, no Secret delete, no update), emits no event,
\* leaves the SopsSecret and every Secret as they are and returns an empty
\* result without error.
C33_NoFinalizerNoAction ==
  /\ []((pc = "done" /\ obj.exists /\ obj.deleting /\ ~obj.finalizer) =>
          /\ log = <<Call("GetCR", "ok")>>
          /\ result = EmptyResult)
  /\ [][(/\ pc = "idle" /\ pc' # "idle"
         /\ cr.exists /\ cr.deleting /\ ~cr.finalizer
         /\ errs' = errs) =>
          /\ pc' = "done"
          /\ obj' = cr
          /\ cr' = cr /\ secrets' = secrets
          /\ log' = <<Call("GetCR", "ok")>>
          /\ result' = EmptyResult]_vars

\* Such a pass has ended while the operator's Secret of the suspended
\* SopsSecret is still there.
C33_Witness ==
  /\ pc = "done"
  /\ obj.exists /\ obj.deleting /\ ~obj.finalizer
  /\ log = <<Call("GetCR", "ok")>>
  /\ IsControlledBy(secrets[getSecretName(obj)], obj)

\* --------------------------------------------- Secrets of other owners
\* C34 (as stated): a pass never creates, overwrites or changes the data of
\* a Secret that another owner controls or that has no controller owner: a
\* step of the pass that changes the stored Secrets creates a Secret of a
\* free name or changes a Secret the fetched SopsSecret controls.
C34_ForeignSecretsUntouched ==
  [][(/\ pc \in {"apply_create", "apply_update"}
      /\ log' # log
      /\ secrets' # secrets) =>
       \/ ~secrets[secret.name].present
       \/ IsControlledBy(secrets[secret.name], obj)]_vars

\* ------------------------------------------ passes that may write a Secret
\* The pass is at, or past, the steps that write the Secret.
ApplySteps == {"apply_get", "apply_create", "apply_update"}

\* The pass took the finalizer branch: its second call is the update of the
\* SopsSecret, sent or about to be sent.
FinalizerPass ==
  \/ pc = "fin_update"
  \/ (pc = "done" /\ Len(log) >= 2 /\ log[2].op = "UpdateCR" /\ ~obj.deleting)

\* C35: a Secret is created or updated only in a pass whose fetched
\* SopsSecret had no deletion timestamp, carried the finalizer already and
\* was not suspended: a pass that starts on a SopsSecret that is being
\* deleted, lacks the finalizer or is suspended goes to the deletion branch,
\* to the finalizer update or to its end, and a pass at the write steps or
\* with a Secret written holds such an object and has not sent a finalizer
\* update. The pass that adds the finalizer makes no call but the fetch and
\* that update: no decryption, no Secret write, no status write, no event.
C35_WriteOnlyWhenActive ==
  /\ []((pc \in ApplySteps \/ (pc # "idle" /\ SecretWritten)) =>
          /\ obj.exists /\ ~obj.deleting /\ obj.finalizer /\ ~obj.suspend
          /\ \A i \in 1..Len(log) : log[i].op # "UpdateCR")
  /\ [](FinalizerPass =>
          /\ Len(log) <= 2
          /\ \A i \in 1..Len(log) : log[i].op \in {"GetCR", "UpdateCR"})
  /\ [][(/\ pc = "idle" /\ pc' # "idle"
         /\ cr.exists
         /\ (cr.deleting \/ ~cr.finalizer \/ cr.suspend)) =>
          /\ pc' \in {"del_get", "fin_update", "done"}
          /\ secrets' = secrets
          /\ cr' = cr]_vars
  /\ [][(pc = "fin_update" /\ pc' # pc) =>
          /\ pc' = "done"
          /\ secrets' = secrets
          /\ cr'.status = cr.status]_vars

\* The pass that added the finalizer to a SopsSecret with a decryptable
\* payload has ended; no Secret has been written.
C35_Witness ==
  /\ pc = "done"
  /\ log = <<Call("GetCR", "ok"), Call("UpdateCR", "ok")>>
  /\ cr.exists /\ cr.finalizer /\ ~cr.suspend /\ ~cr.deleting
  /\ SopsPlain(cr.payload).ok
  /\ \A n \in SecretNames : ~secrets[n].present

\* --------------------------------------- the two conditions go together
\* C36: in the persisted status the Ready and the Decrypted condition carry
\* the same status value at all times: both absent, both True or both False;
\* the status a pass is about to write has them equal too.
C36_ConditionsAgree ==
  /\ cr.exists =>
       /\ CondStatus(cr, ConditionTypeReady) = CondStatus(cr, ConditionTypeDecrypted)
       /\ CondStatus(cr, ConditionTypeReady) \in {"absent", "True", "False"}
  /\ pc = "status_update" =>
       CondStatus(obj, ConditionTypeReady) = CondStatus(obj, ConditionTypeDecrypted)

\* An earlier pass had succeeded (the status holds its hash); the pass that
\* has just ended failed to decrypt and persisted both conditions as False.
C36_Witness ==
  /\ cr.exists
  /\ pc = "done" /\ LastCall = Call("UpdateStatus", "ok")
  /\ InLog(Event(ReasonDecryptFailed))
  /\ cr.status.hash # EmptyHash
  /\ CondStatus(cr, ConditionTypeReady) = "False"
  /\ CondStatus(cr, ConditionTypeDecrypted) = "False"

\* ------------------------------------------ the fields of a successful pass
\* status.lastDecryptedHash, observedGeneration, secretName and
\* lastDecryptedTime.
StatusFields(o) == <<o.status.hash, o.status.og, o.status.secretName, o.status.time>>

\* C37: the four status fields of the stored SopsSecret change only in the
\* status write of a pass that has created or updated the Secret and set
\* Ready=True, and then to the values of that pass; no other step (a status
\* write after a validation or decrypt failure, the digest skip, the
\* suspension, the finalizer update, the deletion steps, a return with an
\* error, a change by the user) changes them, and a pass that writes the
\* status after a failure writes them as they were fetched.
C37_StatusFieldsFrame ==
  /\ [][(/\ cr.exists /\ cr'.exists
         /\ StatusFields(cr') # StatusFields(cr)) =>
          /\ pc = "status_update" /\ pc' = "done"
          /\ SecretWritten
          /\ Ready(obj)
          /\ LastCall' = Call("UpdateStatus", "ok")
          /\ StatusFields(cr') =
               <<HashOfSpec(obj), obj.generation, getSecretName(obj), "now">>]_vars
  /\ [][(/\ pc = "status_update" /\ pc' = "done"
         /\ ~SecretWritten
         /\ LastCall' = Call("UpdateStatus", "ok")) =>
          /\ StatusFields(cr') = StatusFields(cr)
          /\ StatusFields(obj) = StatusFields(cr)]_vars

\* After a successful pass the user changed the payload to one that cannot
\* be decrypted; the failing pass has written its status and the four
\* fields still are those of the successful pass.
C37_Witness ==
  /\ cr.exists
  /\ pc = "done" /\ LastCall = Call("UpdateStatus", "ok")
  /\ InLog(Event(ReasonDecryptFailed))
  /\ cr.status.hash # EmptyHash /\ cr.status.hash # HashOfSpec(cr)
  /\ cr.status.og = 1 /\ cr.generation = 2
  /\ cr.status.time = "now"

\* ------------------------------------------------ digest skip and Ready
\* C38 (as stated): a pass that ends through the digest skip (hash and
\* generation match and the Secret of the derived name exists) holds a
\* SopsSecret whose persisted Ready condition is True.
C38_SkipOnlyWhenReady ==
  (/\ pc = "done" /\ SkipLookup
   /\ log = <<Call("GetCR", "ok"), Call("GetSecret", "ok")>>) =>
     Ready(obj)

\* ------------------------------------------ the Secrets of one SopsSecret
\* The names of the Secrets the operator created for the SopsSecret of uid u.
MadeFor(u) == {n \in SecretNames : secrets[n].present /\ secrets[n].creator = u}

\* C39 (as stated): at most one Secret the operator created for a SopsSecret
\* exists: when a pass has succeeded (a Secret written under the derived
\* name, the status persisted), no Secret it created under a name derived
\* earlier is left, and once the deletion branch has removed the finalizer
\* none is left at all.
C39_AtMostOneSecret ==
  \A k \in 1..MaxLives :
    /\ (/\ pc = "done" /\ obj.exists /\ obj.uid = UidOf(k)
        /\ SecretWritten
        /\ LastCall = Call("UpdateStatus", "ok")) =>
         Cardinality(MadeFor(UidOf(k))) <= 1
    /\ (~cr.exists /\ cr.uid = UidOf(k)) => MadeFor(UidOf(k)) = {}

\* ------------------------------------------- deletion and suspension
\* C40: the deletion branch comes before the suspension check: a pass that
\* fetches a SopsSecret with a deletion timestamp and the finalizer goes to
\* the deletion steps also when spec.suspend is true, and a suspended
\* SopsSecret with a deletion timestamp and the finalizer eventually has its
\* finalizer removed (the object is gone) with no Secret it controls left
\* under the derived name.
C40_DeletionOverSuspension ==
  /\ [][(/\ pc = "idle" /\ pc' # "idle"
         /\ cr.exists /\ cr.deleting /\ cr.finalizer /\ cr.suspend
         /\ errs' = errs) =>
          /\ pc' = "del_get"
          /\ obj' = cr]_vars
  /\ (cr.exists /\ cr.deleting /\ cr.finalizer /\ cr.suspend)
       ~> (~cr.exists /\ ~IsControlledBy(DerivedSecret, cr))

\* The deletion pass of a suspended SopsSecret has deleted the Secret and
\* removed the finalizer.
C40_Witness ==
  /\ pc = "done"
  /\ obj.exists /\ obj.deleting /\ obj.suspend
  /\ InLog(Call("DeleteSecret", "ok"))
  /\ LastCall = Call("UpdateCR", "ok")
  /\ ~cr.exists

====
